---- MODULE Spec2Model ----
(***************************************************************************)
(* A model of the content-to-slide layout engine of slide-deck-ai          *)
(* (src/src/slidedeckai/helpers/pptx_helper.py).                           *)
(*                                                                         *)
(* Text is modelled as a sequence of one-character strings, so that prefix *)
(* tests, substring tests, slicing and the emphasis regular expression are *)
(* computed rather than assumed.                                           *)
(***************************************************************************)
EXTENDS Integers, Sequences, FiniteSets, TLC

(***************************************************************************)
(* Text primitives (Python str operations used by the module)              *)
(***************************************************************************)

\* text[a:b] with 1-based inclusive start a and exclusive end b
Slice(s, a, b) == [i \in 1..(IF b > a THEN b - a ELSE 0) |-> s[a + i - 1]]

\* str.startswith
StartsWith(s, p) == Len(s) >= Len(p) /\ \A i \in 1..Len(p) : s[i] = p[i]

\* p occurs in s at position i (1-based)
OccursAt(s, p, i) == i >= 1 /\ i + Len(p) - 1 <= Len(s) /\ \A j \in 1..Len(p) : s[i + j - 1] = p[j]

\* the `in` operator on strings
Contains(s, p) == \E i \in 1..(Len(s) + 1) : OccursAt(s, p, i)

\* str.removeprefix
RemovePrefix(s, p) == IF StartsWith(s, p) THEN Slice(s, Len(p) + 1, Len(s) + 1) ELSE s

UpperLetters == <<"A","B","C","D","E","F","G","H","I","J","K","L","M","N","O","P","Q","R","S","T","U","V","W","X","Y","Z">>
LowerLetters == <<"a","b","c","d","e","f","g","h","i","j","k","l","m","n","o","p","q","r","s","t","u","v","w","x","y","z">>

LowerChar(c) == IF \E i \in 1..26 : UpperLetters[i] = c THEN LowerLetters[CHOOSE i \in 1..26 : UpperLetters[i] = c] ELSE c

\* str.lower
Lower(s) == [i \in 1..Len(s) |-> LowerChar(s[i])]

Digits == {"0","1","2","3","4","5","6","7","8","9"}

\* str.strip (blanks only)
Strip(s) ==
    LET nonblank == {i \in 1..Len(s) : s[i] # " "}
    IN  IF nonblank = {} THEN <<>>
        ELSE LET a == CHOOSE i \in nonblank : \A j \in nonblank : i <= j
                 b == CHOOSE i \in nonblank : \A j \in nonblank : i >= j
             IN  Slice(s, a, b + 1)

RECURSIVE Concat(_)
\* ''.join(list of texts)
Concat(ss) == IF ss = <<>> THEN <<>> ELSE Head(ss) \o Concat(Tail(ss))

(***************************************************************************)
(* Module constants                                                        *)
(***************************************************************************)

STEP_BY_STEP_PROCESS_MARKER == <<">", ">", " ">>
ICON_BEGINNING_MARKER == <<"[", "[">>
ICON_END_MARKER == <<"]", "]">>

\* SLIDE_NUMBER_REGEX = ^slide[ ]+\d+:  (IGNORECASE), used with .match
SLIDE_NUMBER_REGEX(header) ==
    LET h == Lower(header)
    IN  /\ StartsWith(h, <<"s","l","i","d","e">>)
        /\ \E a \in 7..Len(h) : \E b \in (a + 1)..Len(h) :
              /\ \A i \in 6..(a - 1) : h[i] = " "
              /\ \A i \in a..(b - 1) : h[i] \in Digits
              /\ h[b] = ":"

\* remove_slide_number_from_heading
remove_slide_number_from_heading(header) ==
    IF SLIDE_NUMBER_REGEX(header)
    THEN LET idx == CHOOSE i \in 1..Len(header) : header[i] = ":" /\ \A j \in 1..(i - 1) : header[j] # ":"
         IN  Strip(Slice(header, idx + 1, Len(header) + 1))
    ELSE header


(***************************************************************************)
(* Emphasis parser: BOLD_ITALICS_PATTERN and format_text                   *)
(***************************************************************************)

STAR2 == <<"*", "*">>

\* first alternative \*\*(.*?)\*\* anchored at i: position of the closing "**", or 0
BoldClose(text, i) ==
    IF OccursAt(text, STAR2, i) /\ \E j \in (i + 2)..Len(text) : OccursAt(text, STAR2, j)
    THEN CHOOSE j \in (i + 2)..Len(text) :
            OccursAt(text, STAR2, j) /\ \A k \in (i + 2)..(j - 1) : ~OccursAt(text, STAR2, k)
    ELSE 0

\* second alternative \*(.*?)\* anchored at i: position of the closing "*", or 0
ItalicClose(text, i) ==
    IF i <= Len(text) /\ text[i] = "*" /\ \E j \in (i + 1)..Len(text) : text[j] = "*"
    THEN CHOOSE j \in (i + 1)..Len(text) :
            text[j] = "*" /\ \A k \in (i + 1)..(j - 1) : text[k] # "*"
    ELSE 0

\* the match of BOLD_ITALICS_PATTERN anchored at i (alternatives tried in order);
\* start is 1-based, end is exclusive; group 2 is the bold text, group 3 the italic text
MatchAt(text, i) ==
    IF BoldClose(text, i) # 0
    THEN [start |-> i, end |-> BoldClose(text, i) + 2, alt |-> 2,
          inner |-> Slice(text, i + 2, BoldClose(text, i))]
    ELSE [start |-> i, end |-> ItalicClose(text, i) + 1, alt |-> 3,
          inner |-> Slice(text, i + 1, ItalicClose(text, i))]

RECURSIVE finditer(_, _)
\* BOLD_ITALICS_PATTERN.finditer(text), scanning from position pos
finditer(text, pos) ==
    LET cands == {i \in pos..Len(text) : BoldClose(text, i) # 0 \/ ItalicClose(text, i) # 0}
    IN  IF cands = {} THEN <<>>
        ELSE LET i == CHOOSE c \in cands : \A d \in cands : c <= d
                 m == MatchAt(text, i)
             IN  <<m>> \o finditer(text, m.end)

Run(t, b, it) == [text |-> t, bold |-> b, italic |-> it]

RECURSIVE format_runs_without_rest(_, _, _)
\* format_text without its last step, the run for the text after the last match
format_runs_without_rest(text, matches, last) ==
    IF matches = <<>>
    THEN <<>>
    ELSE LET m == Head(matches)
             before == IF m.start > last THEN <<Run(Slice(text, last, m.start), FALSE, FALSE)>> ELSE <<>>
             span == IF m.alt = 2 /\ m.inner # <<>> THEN <<Run(m.inner, TRUE, FALSE)>>
                     ELSE IF m.alt = 3 /\ m.inner # <<>> THEN <<Run(m.inner, FALSE, TRUE)>>
                     ELSE <<>>
         IN  before \o span \o format_runs_without_rest(text, Tail(matches), m.end)

RECURSIVE format_runs(_, _, _)
\* the loop of format_text over the matches; last is the next unread position
format_runs(text, matches, last) ==
    IF matches = <<>>
    THEN IF last <= Len(text) THEN <<Run(Slice(text, last, Len(text) + 1), FALSE, FALSE)>> ELSE <<>>
    ELSE LET m == Head(matches)
             before == IF m.start > last THEN <<Run(Slice(text, last, m.start), FALSE, FALSE)>> ELSE <<>>
             span == IF m.alt = 2 /\ m.inner # <<>> THEN <<Run(m.inner, TRUE, FALSE)>>
                     ELSE IF m.alt = 3 /\ m.inner # <<>> THEN <<Run(m.inner, FALSE, TRUE)>>
                     ELSE <<>>
         IN  before \o span \o format_runs(text, Tail(matches), m.end)

\* format_text(frame_paragraph, text): the runs it adds to the paragraph
format_text(text) == format_runs(text, finditer(text, 1), 1)

\* the visible text of a list of runs
RunsText(runs) == Concat([i \in 1..Len(runs) |-> runs[i].text])

(***************************************************************************)
(* Bullet structures                                                       *)
(*   a JSON value inside bullet_points is a record                         *)
(*     k = "str":  t is the text                                           *)
(*     k = "list": c is the list of children                               *)
(*     k = "dict": keys is the set of keys present, t the 'heading' value  *)
(*                 and c the 'bullet_points' value                         *)
(***************************************************************************)

Leaf(t) == [k |-> "str", t |-> t, c |-> <<>>, keys |-> {}]
Group(c) == [k |-> "list", t |-> <<>>, c |-> c, keys |-> {}]
Column(keys, h, c) == [k |-> "dict", t |-> h, c |-> c, keys |-> keys]

RECURSIVE get_flat_list_same_level(_, _)
\* get_flat_list_of_contents with the recursive call made at level instead of level + 1
get_flat_list_same_level(items, level) ==
    IF items = <<>> THEN <<>>
    ELSE LET item == Head(items)
             here == IF item.k = "str" THEN <<(<<item.t, level>>)>>
                     ELSE IF item.k = "list" THEN get_flat_list_same_level(item.c, level)
                     ELSE <<>>
         IN  here \o get_flat_list_same_level(Tail(items), level)

RECURSIVE get_flat_list_of_contents(_, _)
\* get_flat_list_of_contents(items, level): list of <<text, level>> pairs
get_flat_list_of_contents(items, level) ==
    IF items = <<>> THEN <<>>
    ELSE LET item == Head(items)
             here == IF item.k = "str" THEN <<(<<item.t, level>>)>>
                     ELSE IF item.k = "list" THEN get_flat_list_of_contents(item.c, level + 1)
                     ELSE <<>>
         IN  here \o get_flat_list_of_contents(Tail(items), level)

\* a paragraph of a text frame
Paragraph(level, runs) == [level |-> level, runs |-> runs]

\* a fresh text frame holds one empty paragraph
EmptyFrame == <<Paragraph(0, <<>>)>>

RECURSIVE add_bulleted_items_from(_, _, _)
add_bulleted_items_from(text_frame, flat_items_list, idx) ==
    IF idx > Len(flat_items_list) THEN text_frame
    ELSE LET an_item == flat_items_list[idx]
             runs == format_text(RemovePrefix(an_item[1], STEP_BY_STEP_PROCESS_MARKER))
             frame == IF idx = 1
                      THEN [text_frame EXCEPT ![1].runs = @ \o runs]
                      ELSE Append(text_frame, Paragraph(an_item[2], runs))
         IN  add_bulleted_items_from(frame, flat_items_list, idx + 1)

\* add_bulleted_items(text_frame, flat_items_list): the text frame afterwards
add_bulleted_items(text_frame, flat_items_list) == add_bulleted_items_from(text_frame, flat_items_list, 1)

(***************************************************************************)
(* Templates and slides                                                    *)
(*   a layout is the list of its placeholders in document order, the title *)
(*   placeholder (idx 0) first; a slide made from a layout gets one empty  *)
(*   text frame per non-title placeholder                                  *)
(***************************************************************************)

PH(idx, name) == [idx |-> idx, name |-> name]

NAME_TITLE == <<"T","i","t","l","e"," ","1">>
NAME_SUBTITLE == <<"S","u","b","t","i","t","l","e"," ","2">>
NAME_CONTENT == <<"C","o","n","t","e","n","t"," ","P","l","a","c","e","h","o","l","d","e","r"," ","2">>
NAME_TEXT == <<"T","e","x","t"," ","P","l","a","c","e","h","o","l","d","e","r"," ","3">>
NAME_PICTURE == <<"P","i","c","t","u","r","e"," ","P","l","a","c","e","h","o","l","d","e","r"," ","2">>

KW_PICTURE == <<"p","i","c","t","u","r","e">>
KW_CONTENT == <<"c","o","n","t","e","n","t">>
KW_TEXT_PLACEHOLDER == <<"t","e","x","t"," ","p","l","a","c","e","h","o","l","d","e","r">>
KW_CONTENT_PLACEHOLDER == <<"c","o","n","t","e","n","t"," ","p","l","a","c","e","h","o","l","d","e","r">>

\* the layouts the module uses: 0 title, 1 title and content, 4 comparison,
\* 5 title only, 8 picture with caption
LayoutNumbers == {0, 1, 4, 5, 8}

\* a template whose placeholders carry the standard indices
StandardTemplate ==
    (0 :> <<PH(0, NAME_TITLE), PH(1, NAME_SUBTITLE)>>) @@
    (1 :> <<PH(0, NAME_TITLE), PH(1, NAME_CONTENT)>>) @@
    (4 :> <<PH(0, NAME_TITLE), PH(1, NAME_TEXT), PH(2, NAME_CONTENT), PH(3, NAME_TEXT), PH(4, NAME_CONTENT)>>) @@
    (5 :> <<PH(0, NAME_TITLE)>>) @@
    (8 :> <<PH(0, NAME_TITLE), PH(1, NAME_PICTURE), PH(2, NAME_TEXT)>>)

\* a hand-edited template: the content layouts carry user-added placeholders (idx >= 10)
EditedTemplate ==
    (0 :> <<PH(0, NAME_TITLE), PH(1, NAME_SUBTITLE)>>) @@
    (1 :> <<PH(0, NAME_TITLE), PH(10, NAME_CONTENT)>>) @@
    (4 :> <<PH(0, NAME_TITLE), PH(10, NAME_TEXT), PH(11, NAME_CONTENT), PH(12, NAME_TEXT), PH(13, NAME_CONTENT)>>) @@
    (5 :> <<PH(0, NAME_TITLE)>>) @@
    (8 :> <<PH(0, NAME_TITLE), PH(10, NAME_PICTURE), PH(11, NAME_CONTENT)>>)

\* a hand-edited template whose content layouts kept only the title
BareTemplate ==
    (0 :> <<PH(0, NAME_TITLE), PH(1, NAME_SUBTITLE)>>) @@
    (1 :> <<PH(0, NAME_TITLE)>>) @@
    (4 :> <<PH(0, NAME_TITLE)>>) @@
    (5 :> <<PH(0, NAME_TITLE)>>) @@
    (8 :> <<PH(0, NAME_TITLE)>>)

NAME_DATE == <<"D","a","t","e"," ","P","l","a","c","e","h","o","l","d","e","r"," ","5">>

\* a hand-edited template whose comparison layout kept the left column, got a date
\* placeholder and a new right column (idx >= 10)
MixedTemplate ==
    (0 :> <<PH(0, NAME_TITLE), PH(1, NAME_SUBTITLE)>>) @@
    (1 :> <<PH(0, NAME_TITLE), PH(1, NAME_CONTENT)>>) @@
    (4 :> <<PH(0, NAME_TITLE), PH(1, NAME_TEXT), PH(2, NAME_CONTENT), PH(10, NAME_DATE), PH(11, NAME_TEXT), PH(12, NAME_CONTENT)>>) @@
    (5 :> <<PH(0, NAME_TITLE)>>) @@
    (8 :> <<PH(0, NAME_TITLE), PH(1, NAME_PICTURE), PH(2, NAME_TEXT)>>)

Templates == {StandardTemplate, EditedTemplate, BareTemplate, MixedTemplate}

\* the placeholder indices of a slide other than the title
BodyIdx(slide) == {slide.ph[n].idx : n \in 2..Len(slide.ph)}

\* slide.shapes.placeholders[idx] raises KeyError
KeyErrorPH(slide, idx) == idx \notin BodyIdx(slide)

\* presentation.slides.add_slide(presentation.slide_layouts[n]): the new slide
NewSlide(tpl, n) ==
    [layout |-> n,
     title |-> <<>>,
     ph |-> tpl[n],
     frames |-> [idx \in {tpl[n][m].idx : m \in 2..Len(tpl[n])} |-> <<[level |-> 0, runs |-> <<>>]>>],
     shapes |-> <<>>]

\* get_slide_placeholders(slide, layout_number): (idx, lower-case name) of the non-title placeholders
get_slide_placeholders(slide) ==
    [n \in 1..(Len(slide.ph) - 1) |-> <<slide.ph[n + 1].idx, Lower(slide.ph[n + 1].name)>>]

\* a shape added to a slide
Shape(type, role, frame) == [type |-> type, role |-> role, frame |-> frame, cells |-> <<>>]

\* shape.text = t / text_frame.text = t : one paragraph holding t as a single plain run
TextSet(t) == <<[level |-> 0, runs |-> IF t = <<>> THEN <<>> ELSE <<[text |-> t, bold |-> FALSE, italic |-> FALSE]>>]>>

\* the text frame of a new shape after format_text(paragraphs[0], t)
Formatted(t) == <<[level |-> 0, runs |-> format_text(t)]>>

\* the outcome of a handler call: it raised or returned ret, leaving the presentation pres
Outcome(raised, ret, pres) == [raised |-> raised, ret |-> ret, pres |-> pres]

\* the presentation with its last slide replaced
WithLast(pres, slide) == [pres EXCEPT ![Len(pres)] = slide]

\* _add_text_at_bottom(slide, ..., text, hyperlink): the slide with the footer text box
_add_text_at_bottom(slide, text) == [slide EXCEPT !.shapes = Append(@, Shape("TEXTBOX", "footer", TextSet(text)))]

FOOTER_ICONS == <<"M","o","r","e"," ","i","c","o","n","s">>
FOOTER_PEXELS == <<"P","h","o","t","o"," ","p","r","o","v","i","d","e","d"," ","b","y"," ","P","e","x","e","l","s">>

\* _handle_key_message(the_slide, slide_json, ...): the slide afterwards
_handle_key_message(the_slide, slide_json) ==
    IF "key_message" \in slide_json.keys /\ slide_json.key_message # <<>>
    THEN [the_slide EXCEPT !.shapes = Append(@, Shape("ROUNDED_RECTANGLE", "key_message", Formatted(slide_json.key_message)))]
    ELSE the_slide

(***************************************************************************)
(* Slide specifications                                                    *)
(*   a SlideSpec is a JSON object: keys is the set of keys present; the    *)
(*   value fields of absent keys are never read                            *)
(***************************************************************************)

\* str.lstrip of the blanks matched by \s*
LStrip(s) ==
    LET nonblank == {i \in 1..Len(s) : s[i] # " "}
    IN  IF nonblank = {} THEN <<>>
        ELSE Slice(s, CHOOSE i \in nonblank : \A j \in nonblank : i <= j, Len(s) + 1)

\* positions a where ICONS_REGEX = \[\[(.*?)\]\]\s*(.*) can match
IconStarts(item) ==
    {a \in 1..Len(item) : OccursAt(item, ICON_BEGINNING_MARKER, a)
                          /\ \E b \in (a + 2)..Len(item) : OccursAt(item, ICON_END_MARKER, b)}

\* ICONS_REGEX.search(item) is not None
IconsRegexMatches(item) == IconStarts(item) # {}

\* (match.group(1), match.group(2)) of ICONS_REGEX.search(item)
IconsRegexGroups(item) ==
    LET a == CHOOSE x \in IconStarts(item) : \A y \in IconStarts(item) : x <= y
        ends == {b \in (a + 2)..Len(item) : OccursAt(item, ICON_END_MARKER, b)}
        b == CHOOSE x \in ends : \A y \in ends : x <= y
    IN  <<Slice(item, a + 2, b), LStrip(Slice(item, b + 2, Len(item) + 1))>>

RECURSIVE IconShapes(_, _)
\* the shapes the loop of _handle_icons_ideas adds for the items from idx on
IconShapes(icons_texts, idx) ==
    IF idx > Len(icons_texts) THEN <<>>
    ELSE <<Shape("ROUNDED_RECTANGLE", "icon_background", <<[level |-> 0, runs |-> <<>>]>>),
           Shape("PICTURE", "icon", <<>>),
           Shape("ROUNDED_RECTANGLE", "icon_text", Formatted(icons_texts[idx][2])),
           Shape("TEXTBOX", "footer", TextSet(FOOTER_ICONS))>>
         \o IconShapes(icons_texts, idx + 1)

\* _handle_icons_ideas(presentation, slide_json, ...)
\*   env.icons: what the icon collaborators do ("ok", find_icons raises, add_picture raises)
_handle_icons_ideas(pres, tpl, slide_json, env) ==
    LET items == slide_json.bullet_points
    IN  IF "bullet_points" \in slide_json.keys /\ items # <<>>
        THEN IF \E n \in 1..Len(items) : items[n].k # "str" \/ ~StartsWith(items[n].t, ICON_BEGINNING_MARKER)
             THEN Outcome(FALSE, FALSE, pres)
             ELSE LET slide0 == NewSlide(tpl, 5)
                      pres1 == Append(pres, slide0)
                      slide1 == [slide0 EXCEPT !.title = remove_slide_number_from_heading(slide_json.heading)]
                      icons_texts == [n \in 1..Len(items) |-> IconsRegexGroups(items[n].t)]
                  IN  IF "heading" \notin slide_json.keys
                      THEN Outcome(TRUE, FALSE, pres1)
                      ELSE IF \E n \in 1..Len(items) : ~IconsRegexMatches(items[n].t)
                      THEN Outcome(TRUE, FALSE, WithLast(pres1, slide1))
                      ELSE IF env.icons = "find_icons_raises"
                      THEN Outcome(TRUE, FALSE, WithLast(pres1, slide1))
                      ELSE IF env.icons = "add_picture_raises"
                      THEN Outcome(TRUE, FALSE, WithLast(pres1,
                               [slide1 EXCEPT !.shapes = <<Shape("ROUNDED_RECTANGLE", "icon_background", <<[level |-> 0, runs |-> <<>>]>>)>>]))
                      ELSE Outcome(FALSE, TRUE, WithLast(pres1, [slide1 EXCEPT !.shapes = IconShapes(icons_texts, 1)]))
        ELSE Outcome(FALSE, FALSE, pres)

\* a table cell
Cell(text, bold) == [text |-> text, bold |-> bold]

\* the cells of the table after the header loop and the row loop ran up to (not including)
\* row number stop; a row longer than the header fills its first Len(headers) cells
TableCells(headers, rows, stop) ==
    [r \in 1..(Len(rows) + 1) |->
        [c \in 1..Len(headers) |->
            IF r = 1 THEN Cell(headers[c], TRUE)
            ELSE IF r - 1 <= stop /\ c <= Len(rows[r - 1]) THEN Cell(rows[r - 1][c], FALSE)
            ELSE Cell(<<>>, FALSE)]]

\* _handle_table that adds its slide before it tests for the table
_handle_table_slide_first(pres, tpl, slide_json, env) ==
    IF "table" \notin slide_json.keys \/ slide_json.table.keys = {}
    THEN Outcome(FALSE, FALSE, Append(pres, NewSlide(tpl, 1)))
    ELSE LET headers == IF "headers" \in slide_json.table.keys THEN slide_json.table.headers ELSE <<>>
             rows == IF "rows" \in slide_json.table.keys THEN slide_json.table.rows ELSE <<>>
             slide0 == NewSlide(tpl, 1)
             pres1 == Append(pres, slide0)
             slide1 == [slide0 EXCEPT !.title = remove_slide_number_from_heading(slide_json.heading)]
             long == {r \in 1..Len(rows) : Len(rows[r]) > Len(headers)}
             stop == IF long = {} THEN Len(rows) ELSE CHOOSE r \in long : \A q \in long : r <= q
             slide2 == [slide1 EXCEPT !.shapes = <<[type |-> "TABLE", role |-> "table", frame |-> <<>>,
                                                    cells |-> TableCells(headers, rows, stop)]>>]
         IN  IF "heading" \notin slide_json.keys
             THEN Outcome(TRUE, FALSE, pres1)
             ELSE IF KeyErrorPH(slide1, 1)
             THEN Outcome(TRUE, FALSE, WithLast(pres1, slide1))
             ELSE IF headers = <<>> /\ env.zero_cols = "raises"
             THEN Outcome(TRUE, FALSE, WithLast(pres1, slide1))
             ELSE IF long # {}
             THEN Outcome(TRUE, FALSE, WithLast(pres1, slide2))
             ELSE Outcome(FALSE, TRUE, WithLast(pres1, slide2))

\* _handle_table(presentation, slide_json, ...)
\*   env.zero_cols: what add_table does when asked for a table of 0 columns
_handle_table(pres, tpl, slide_json, env) ==
    IF "table" \notin slide_json.keys \/ slide_json.table.keys = {}
    THEN Outcome(FALSE, FALSE, pres)
    ELSE LET headers == IF "headers" \in slide_json.table.keys THEN slide_json.table.headers ELSE <<>>
             rows == IF "rows" \in slide_json.table.keys THEN slide_json.table.rows ELSE <<>>
             slide0 == NewSlide(tpl, 1)
             pres1 == Append(pres, slide0)
             slide1 == [slide0 EXCEPT !.title = remove_slide_number_from_heading(slide_json.heading)]
             long == {r \in 1..Len(rows) : Len(rows[r]) > Len(headers)}
             stop == IF long = {} THEN Len(rows) ELSE CHOOSE r \in long : \A q \in long : r <= q
             slide2 == [slide1 EXCEPT !.shapes = <<[type |-> "TABLE", role |-> "table", frame |-> <<>>,
                                                    cells |-> TableCells(headers, rows, stop)]>>]
         IN  IF "heading" \notin slide_json.keys
             THEN Outcome(TRUE, FALSE, pres1)
             ELSE IF KeyErrorPH(slide1, 1)
             THEN Outcome(TRUE, FALSE, WithLast(pres1, slide1))
             ELSE IF headers = <<>> /\ env.zero_cols = "raises"
             THEN Outcome(TRUE, FALSE, WithLast(pres1, slide1))
             ELSE IF long # {}
             THEN Outcome(TRUE, FALSE, WithLast(pres1, slide2))
             ELSE Outcome(FALSE, TRUE, WithLast(pres1, slide2))

\* no placeholder resolved (Python None)
None == -1

\* the indices of the placeholders whose name contains keyword, in list order
Matching(placeholders, keyword) ==
    SelectSeq([n \in 1..Len(placeholders) |->
                  IF Contains(placeholders[n][2], keyword) THEN placeholders[n][1] ELSE None],
              LAMBDA x : x # None)

\* a fallback loop without the `if not left ... elif not right` tests: the last match
\* is taken for both sides
FirstTwo_last_for_both(placeholders, keyword) ==
    LET m == Matching(placeholders, keyword)
    IN  <<IF Len(m) >= 1 THEN m[Len(m)] ELSE None, IF Len(m) >= 1 THEN m[Len(m)] ELSE None>>

\* the left/right fallback loop of _handle_double_col_layout: first match left, second right
FirstTwo(placeholders, keyword) ==
    LET m == Matching(placeholders, keyword)
    IN  <<IF Len(m) >= 1 THEN m[1] ELSE None, IF Len(m) >= 2 THEN m[2] ELSE None>>

\* the fallback loops of the image handlers: every match overwrites, so the last one stays
LastOne(placeholders, keyword) ==
    LET m == Matching(placeholders, keyword)
    IN  IF Len(m) >= 1 THEN m[Len(m)] ELSE None

\* a column filled with its heading only: the bullets are left out
FillColumn_without_bullets(slide, col, h, b) ==
    [raised |-> FALSE,
     slide |-> IF "heading" \in col.keys /\ h # None THEN [slide EXCEPT !.frames[h] = TextSet(col.t)] ELSE slide]

\* one column of _handle_double_col_layout: heading placeholder h, body placeholder b
FillColumn(slide, col, h, b) ==
    LET s1 == IF "heading" \in col.keys /\ h # None
              THEN [slide EXCEPT !.frames[h] = TextSet(col.t)] ELSE slide
        flat_items_list == get_flat_list_of_contents(col.c, 0)
        s2 == IF h = None THEN [s1 EXCEPT !.frames[b] = TextSet(col.t)] ELSE s1
        s3 == [s2 EXCEPT !.frames[b] = add_bulleted_items(@, flat_items_list)]
    IN  IF "bullet_points" \notin col.keys THEN [raised |-> FALSE, slide |-> s1]
        ELSE IF h = None /\ "heading" \notin col.keys THEN [raised |-> TRUE, slide |-> s1]
        ELSE [raised |-> FALSE, slide |-> s3]

\* _handle_double_col_layout(presentation, slide_json, ...)
_handle_double_col_layout(pres, tpl, slide_json) ==
    LET double_col_content == slide_json.bullet_points
    IN  IF /\ "bullet_points" \in slide_json.keys
           /\ Len(double_col_content) = 2
           /\ double_col_content[1].k = "dict"
           /\ double_col_content[2].k = "dict"
        THEN LET slide0 == NewSlide(tpl, 4)
                 pres1 == Append(pres, slide0)
                 slide1 == [slide0 EXCEPT !.title = remove_slide_number_from_heading(slide_json.heading)]
                 placeholders == get_slide_placeholders(slide1)
                 headings == IF ~KeyErrorPH(slide1, 1) /\ ~KeyErrorPH(slide1, 3) THEN <<1, 3>>
                             ELSE FirstTwo(placeholders, KW_TEXT_PLACEHOLDER)
                 cols == IF ~KeyErrorPH(slide1, 2) /\ ~KeyErrorPH(slide1, 4) THEN <<2, 4>>
                         ELSE FirstTwo(placeholders, KW_CONTENT_PLACEHOLDER)
                 left == FillColumn(slide1, double_col_content[1], headings[1], cols[1])
                 right == FillColumn(left.slide, double_col_content[2], headings[2], cols[2])
             IN  IF "heading" \notin slide_json.keys
                 THEN Outcome(TRUE, FALSE, pres1)
                 ELSE IF cols[1] = None \/ cols[2] = None
                 THEN Outcome(TRUE, FALSE, WithLast(pres1, slide1))
                 ELSE IF left.raised
                 THEN Outcome(TRUE, FALSE, WithLast(pres1, left.slide))
                 ELSE IF right.raised
                 THEN Outcome(TRUE, FALSE, WithLast(pres1, right.slide))
                 ELSE Outcome(FALSE, TRUE, WithLast(pres1, _handle_key_message(right.slide, slide_json)))
        ELSE Outcome(FALSE, FALSE, pres)

STEP_HYPHEN == <<"s","t","e","p","-","b","y","-","s","t","e","p">>
STEP_BLANK == <<"s","t","e","p"," ","b","y"," ","s","t","e","p">>

\* no_marker_count after the loop over the steps
NoMarkerCount(steps) == Cardinality({n \in 1..Len(steps) : ~StartsWith(steps[n].t, STEP_BY_STEP_PROCESS_MARKER)})

\* the shapes the step loops add: one shape of the given type per step
StepShapes(steps, type) ==
    [n \in 1..Len(steps) |-> Shape(type, "step", Formatted(RemovePrefix(steps[n].t, STEP_BY_STEP_PROCESS_MARKER)))]

\* _handle_step_by_step_process with the threshold test written >= 0.25 instead of > 0.25
_handle_step_by_step_process_ge(pres, tpl, slide_json) ==
    LET steps == slide_json.bullet_points
        n_steps == Len(steps)
        slide_header == Lower(slide_json.heading)
        slide1 == [NewSlide(tpl, 1) EXCEPT !.title = remove_slide_number_from_heading(slide_json.heading)]
        slide2 == IF 3 <= n_steps /\ n_steps <= 4
                  THEN [slide1 EXCEPT !.shapes = StepShapes(steps, "CHEVRON")]
                  ELSE IF 4 < n_steps /\ n_steps <= 6
                  THEN [slide1 EXCEPT !.shapes = StepShapes(steps, "PENTAGON")]
                  ELSE slide1
    IN  IF "bullet_points" \in slide_json.keys /\ steps # <<>>
        THEN IF \E n \in 1..n_steps : steps[n].k # "str"
             THEN Outcome(FALSE, FALSE, pres)
             ELSE IF "heading" \notin slide_json.keys
             THEN Outcome(TRUE, FALSE, pres)
             ELSE IF 100 * NoMarkerCount(steps) >= 25 * n_steps
                     /\ ~(Contains(slide_header, STEP_HYPHEN) \/ Contains(slide_header, STEP_BLANK))
             THEN Outcome(FALSE, FALSE, pres)
             ELSE IF n_steps < 3 \/ n_steps > 6
             THEN Outcome(FALSE, FALSE, pres)
             ELSE Outcome(FALSE, TRUE, Append(pres, slide2))
        ELSE Outcome(FALSE, TRUE, pres)

\* _handle_step_by_step_process(presentation, slide_json, ...)
_handle_step_by_step_process(pres, tpl, slide_json) ==
    LET steps == slide_json.bullet_points
        n_steps == Len(steps)
        slide_header == Lower(slide_json.heading)
        slide0 == NewSlide(tpl, 1)
        slide1 == [slide0 EXCEPT !.title = remove_slide_number_from_heading(slide_json.heading)]
        slide2 == IF 3 <= n_steps /\ n_steps <= 4
                  THEN [slide1 EXCEPT !.shapes = StepShapes(steps, "CHEVRON")]
                  ELSE IF 4 < n_steps /\ n_steps <= 6
                  THEN [slide1 EXCEPT !.shapes = StepShapes(steps, "PENTAGON")]
                  ELSE slide1
    IN  IF "bullet_points" \in slide_json.keys /\ steps # <<>>
        THEN IF \E n \in 1..n_steps : steps[n].k # "str"
             THEN Outcome(FALSE, FALSE, pres)
             ELSE IF "heading" \notin slide_json.keys
             THEN Outcome(TRUE, FALSE, pres)
             ELSE IF 100 * NoMarkerCount(steps) > 25 * n_steps
                     /\ ~(Contains(slide_header, STEP_HYPHEN) \/ Contains(slide_header, STEP_BLANK))
             THEN Outcome(FALSE, FALSE, pres)
             ELSE IF n_steps < 3 \/ n_steps > 6
             THEN Outcome(FALSE, FALSE, pres)
             ELSE Outcome(FALSE, TRUE, Append(pres, slide2))
        ELSE Outcome(FALSE, TRUE, pres)

\* IMAGE_DISPLAY_PROBABILITY = 1 / 3.0 and FOREGROUND_IMAGE_PROBABILITY = 0.8;
\* a draw of random.random() is modelled in thousandths
BelowImageDisplayProbability(draw) == 3 * draw < 1000
BelowForegroundImageProbability(draw) == 10 * draw < 8000

\* the try block shared by the two image handlers: does a photo arrive?
\*   env.search: search_pexels / get_photo_url_from_api_response raise, return no URL, or a URL
\*   env.download: get_image_from_url raises or returns the bytes
PhotoArrives(env) == env.search = "photo" /\ env.download = "ok"

\* the foreground handler without its try/except around the photo search and download
_handle_display_image__in_foreground_no_except(pres, tpl, slide_json, env) ==
    LET img_keywords == Strip(slide_json.img_keywords)
        slide0 == NewSlide(tpl, 8)
        pres1 == Append(pres, slide0)
        slide1 == [slide0 EXCEPT !.title = remove_slide_number_from_heading(slide_json.heading)]
        placeholders == get_slide_placeholders(slide1)
        pic_col == IF ~KeyErrorPH(slide1, 1) THEN 1 ELSE LastOne(placeholders, KW_PICTURE)
        text_col == IF ~KeyErrorPH(slide1, 2) THEN 2 ELSE LastOne(placeholders, KW_CONTENT)
        flat_items_list == get_flat_list_of_contents(slide_json.bullet_points, 0)
        slide2 == [slide1 EXCEPT !.frames[text_col] = add_bulleted_items(@, flat_items_list)]
        slide3 == _add_text_at_bottom(
                      [slide2 EXCEPT !.shapes = Append(@, Shape("PICTURE", "foreground", <<>>))], FOOTER_PEXELS)
    IN  IF "heading" \notin slide_json.keys
        THEN Outcome(TRUE, FALSE, pres1)
        ELSE IF "bullet_points" \notin slide_json.keys \/ text_col = None
        THEN Outcome(TRUE, FALSE, WithLast(pres1, slide1))
        ELSE IF img_keywords = <<>>
        THEN Outcome(FALSE, TRUE, WithLast(pres1, slide2))
        ELSE IF env.search = "raises" \/ (env.search = "photo" /\ env.download = "raises")
        THEN Outcome(TRUE, FALSE, WithLast(pres1, slide2))
        ELSE IF PhotoArrives(env) /\ pic_col # None
        THEN Outcome(FALSE, TRUE, WithLast(pres1, slide3))
        ELSE Outcome(FALSE, TRUE, WithLast(pres1, slide2))

\* _handle_display_image__in_foreground(presentation, slide_json, ...)
_handle_display_image__in_foreground(pres, tpl, slide_json, env) ==
    LET img_keywords == Strip(slide_json.img_keywords)
        slide0 == NewSlide(tpl, 8)
        pres1 == Append(pres, slide0)
        slide1 == [slide0 EXCEPT !.title = remove_slide_number_from_heading(slide_json.heading)]
        placeholders == get_slide_placeholders(slide1)
        pic_col == IF ~KeyErrorPH(slide1, 1) THEN 1 ELSE LastOne(placeholders, KW_PICTURE)
        text_col == IF ~KeyErrorPH(slide1, 2) THEN 2 ELSE LastOne(placeholders, KW_CONTENT)
        flat_items_list == get_flat_list_of_contents(slide_json.bullet_points, 0)
        slide2 == [slide1 EXCEPT !.frames[text_col] = add_bulleted_items(@, flat_items_list)]
        slide3 == _add_text_at_bottom(
                      [slide2 EXCEPT !.shapes = Append(@, Shape("PICTURE", "foreground", <<>>))], FOOTER_PEXELS)
    IN  IF "heading" \notin slide_json.keys
        THEN Outcome(TRUE, FALSE, pres1)
        ELSE IF "bullet_points" \notin slide_json.keys \/ text_col = None
        THEN Outcome(TRUE, FALSE, WithLast(pres1, slide1))
        ELSE IF img_keywords = <<>>
        THEN Outcome(FALSE, TRUE, WithLast(pres1, slide2))
        ELSE IF PhotoArrives(env) /\ pic_col # None
        THEN Outcome(FALSE, TRUE, WithLast(pres1, slide3))
        ELSE Outcome(FALSE, TRUE, WithLast(pres1, slide2))

\* the body placeholder of layout 1: index 1, else the first non-title placeholder
BodyShape(slide) ==
    IF ~KeyErrorPH(slide, 1) THEN 1
    ELSE IF get_slide_placeholders(slide) = <<>> THEN None
    ELSE get_slide_placeholders(slide)[1][1]

\* _handle_display_image__in_background(presentation, slide_json, ...)
_handle_display_image__in_background(pres, tpl, slide_json, env) ==
    LET img_keywords == Strip(slide_json.img_keywords)
        slide0 == NewSlide(tpl, 1)
        pres1 == Append(pres, slide0)
        body_shape == BodyShape(slide0)
        slide1 == [slide0 EXCEPT !.title = remove_slide_number_from_heading(slide_json.heading)]
        flat_items_list == get_flat_list_of_contents(slide_json.bullet_points, 0)
        slide2 == [slide1 EXCEPT !.frames[body_shape] = add_bulleted_items(@, flat_items_list)]
        \* the picture is moved to the back of the z-order, the footer stays in front
        slide3 == [slide2 EXCEPT !.shapes = <<Shape("PICTURE", "background", <<>>)>> \o @
                                              \o <<Shape("TEXTBOX", "footer", TextSet(FOOTER_PEXELS))>>]
    IN  IF body_shape = None \/ "heading" \notin slide_json.keys
        THEN Outcome(TRUE, FALSE, pres1)
        ELSE IF "bullet_points" \notin slide_json.keys
        THEN Outcome(TRUE, FALSE, WithLast(pres1, slide1))
        ELSE IF img_keywords = <<>>
        THEN Outcome(FALSE, TRUE, WithLast(pres1, slide2))
        ELSE IF PhotoArrives(env)
        THEN Outcome(FALSE, TRUE, WithLast(pres1, slide3))
        ELSE Outcome(FALSE, TRUE, WithLast(pres1, slide2))

\* the text-only part of _handle_default_display
DefaultTextOnly(pres, tpl, slide_json) ==
    LET slide0 == NewSlide(tpl, 1)
        pres1 == Append(pres, slide0)
        body_shape == BodyShape(slide0)
        slide1 == [slide0 EXCEPT !.title = remove_slide_number_from_heading(slide_json.heading)]
        flat_items_list == get_flat_list_of_contents(slide_json.bullet_points, 0)
        slide2 == [slide1 EXCEPT !.frames[body_shape] = add_bulleted_items(@, flat_items_list)]
    IN  IF body_shape = None \/ "heading" \notin slide_json.keys
        THEN Outcome(TRUE, FALSE, pres1)
        ELSE IF "bullet_points" \notin slide_json.keys
        THEN Outcome(TRUE, FALSE, WithLast(pres1, slide1))
        ELSE Outcome(FALSE, TRUE, WithLast(pres1, _handle_key_message(slide2, slide_json)))

\* _handle_default_display with the two image layouts the other way round
_handle_default_display_background_first(pres, tpl, slide_json, env) ==
    IF "img_keywords" \in slide_json.keys /\ BelowImageDisplayProbability(env.draw1)
    THEN IF BelowForegroundImageProbability(env.draw2)
         THEN _handle_display_image__in_background(pres, tpl, slide_json, env)
         ELSE _handle_display_image__in_foreground(pres, tpl, slide_json, env)
    ELSE DefaultTextOnly(pres, tpl, slide_json)

\* _handle_default_display(presentation, slide_json, ...)
\*   env.draw1, env.draw2: the values random.random() returns, in thousandths
_handle_default_display(pres, tpl, slide_json, env) ==
    IF "img_keywords" \in slide_json.keys /\ BelowImageDisplayProbability(env.draw1)
    THEN IF BelowForegroundImageProbability(env.draw2)
         THEN _handle_display_image__in_foreground(pres, tpl, slide_json, env)
         ELSE _handle_display_image__in_background(pres, tpl, slide_json, env)
    ELSE DefaultTextOnly(pres, tpl, slide_json)

(***************************************************************************)
(* Inputs                                                                  *)
(***************************************************************************)

T_DECK == <<"D","e","c","k">>
H_PLAIN == <<"P","l","a","n">>
H_NUMBERED == <<"S","l","i","d","e"," ","1",":"," ","I","n","t","r","o">>
H_STEP == <<"A"," ","S","t","e","p","-","b","y","-","S","t","e","p"," ","g","u","i","d","e">>
T_A == <<"a">>
T_B == <<"b">>
T_C == <<"c">>
T_EM == <<"x"," ","*","y","*">>
T_S1 == <<">",">"," ","s","1">>
T_S2 == <<">",">"," ","s","2">>
T_S3 == <<">",">"," ","*","*","s","3","*","*">>
T_ICON1 == <<"[","[","b","r","a","i","n","]","]"," ","i","d","e","a">>
T_ICON2 == <<"[","[","]","]"," "," ","*","t","w","o","*">>
T_ICON_OPEN == <<"[","[","b","u","l","b">>
T_KEY == <<"k","e","y"," ","*","p","o","i","n","t","*">>
T_KW == <<" ","s","e","a"," ">>
T_BLANK == <<" ">>
SUBTITLE == <<"b","y"," ","M","y","s","e","l","f"," ","a","n","d"," ","S","l","i","d","e","D","e","c","k"," ","A","I"," ",":",")">>
THANK_YOU == <<"T","h","a","n","k"," ","y","o","u","!">>

\* n copies of the bullet x
Rep(n, x) == [i \in 1..n |-> x]

\* the values of 'bullet_points' tried (the key may also be absent)
BulletLists ==
    {<<>>,
     <<Leaf(T_A)>>,
     <<Leaf(T_A), Group(<<Leaf(T_B), Leaf(T_EM)>>)>>,
     <<Group(<<Leaf(T_B)>>), Leaf(T_S1)>>,
     <<Leaf(T_ICON1), Leaf(T_ICON2)>>,
     <<Leaf(T_ICON1), Leaf(T_ICON_OPEN)>>,
     <<Leaf(T_ICON1), Leaf(T_A)>>,
     <<Leaf(T_ICON1), Leaf(T_ICON1), Leaf(T_ICON2)>>,
     <<Column({"heading", "bullet_points"}, T_A, <<Leaf(T_B)>>),
       Column({"heading", "bullet_points"}, T_B, <<Leaf(T_C), Group(<<Leaf(T_EM)>>)>>)>>,
     <<Column({"bullet_points"}, <<>>, <<Leaf(T_B)>>), Column({"heading"}, T_B, <<>>)>>,
     <<Column({"heading", "bullet_points"}, T_A, <<Leaf(T_B)>>), Leaf(T_S1)>>,
     <<Column({"heading", "bullet_points"}, T_A, <<Leaf(T_B)>>)>>,
     <<Column({"heading", "bullet_points"}, T_A, <<Leaf(T_B)>>),
       Column({"heading", "bullet_points"}, T_B, <<Leaf(T_C)>>),
       Column({"heading", "bullet_points"}, T_C, <<Leaf(T_A)>>)>>,
     <<Leaf(T_S1), Leaf(T_S2)>>,
     <<Leaf(T_S1), Leaf(T_S2), Leaf(T_S3)>>,
     <<Leaf(T_A), Leaf(T_S2), Leaf(T_S3)>>,
     <<Leaf(T_S1), Leaf(T_S2), Group(<<Leaf(T_S3)>>)>>,
     <<Leaf(T_S1), Leaf(T_A), Leaf(T_S2), Leaf(T_S3)>>,
     <<Leaf(T_A), Leaf(T_A), Leaf(T_S2), Leaf(T_S3)>>,
     Rep(5, Leaf(T_S1)),
     <<Leaf(T_S1), Leaf(T_S2), Leaf(T_S3), Leaf(T_S1), Leaf(T_S2), Leaf(T_A)>>,
     Rep(7, Leaf(T_S1))}

\* a 'table' value
Table(keys, headers, rows) == [keys |-> keys, headers |-> headers, rows |-> rows]

\* the values of 'table' tried (the key may also be absent)
Tables ==
    {Table({}, <<>>, <<>>),
     Table({"headers", "rows"}, <<T_A, T_B>>, <<(<<T_C, T_A>>), (<<T_B>>)>>),
     Table({"headers", "rows"}, <<T_A>>, <<(<<T_C, T_A>>)>>),
     Table({"headers", "rows"}, <<>>, <<>>),
     Table({"headers"}, <<T_A>>, <<>>)}

\* a SlideSpec
SlideSpec(keys, heading, bullet_points, key_message, img_keywords, table) ==
    [keys |-> keys, heading |-> heading, bullet_points |-> bullet_points,
     key_message |-> key_message, img_keywords |-> img_keywords, table |-> table]

\* the set {absent} + values of an optional key: <<present, value>> pairs
Optional(values, default) == {<<FALSE, default>>} \cup {<<TRUE, v>> : v \in values}

NoTable == Table({}, <<>>, <<>>)

\* the SlideSpec made of five optional keys
MakeSlideSpec(h, b, k, i, t) ==
    SlideSpec((IF h[1] THEN {"heading"} ELSE {}) \cup
              (IF b[1] THEN {"bullet_points"} ELSE {}) \cup
              (IF k[1] THEN {"key_message"} ELSE {}) \cup
              (IF i[1] THEN {"img_keywords"} ELSE {}) \cup
              (IF t[1] THEN {"table"} ELSE {}),
              h[2], b[2], k[2], i[2], t[2])

Headings == Optional({H_NUMBERED, H_STEP}, <<>>)

\* every SlideSpec without 'table' built from the sample values, and the SlideSpecs with
\* a 'table' next to the bullet lists that compete with it
AllSlideSpecs ==
    {MakeSlideSpec(h, b, k, i, <<FALSE, NoTable>>) :
        h \in Headings,
        b \in Optional(BulletLists, <<>>),
        k \in Optional({<<>>, T_KEY}, <<>>),
        i \in Optional({T_BLANK, T_KW}, <<>>)}
    \cup
    {MakeSlideSpec(h, b, k, <<FALSE, <<>>>>, <<TRUE, t>>) :
        h \in Headings,
        b \in Optional({<<>>, <<Leaf(T_ICON1), Leaf(T_ICON2)>>, <<Leaf(T_A)>>}, <<>>),
        k \in Optional({T_KEY}, <<>>),
        t \in Tables}

AllKeys == {"heading", "bullet_points", "key_message", "img_keywords", "table"}
\* the SlideSpecs that decks of several slides are built from: one per layout, one that
\* makes a handler raise after it added its slide, one without bullets
CoreSlideSpecs ==
    {SlideSpec(AllKeys \ {"table"}, H_PLAIN, <<Leaf(T_A), Group(<<Leaf(T_B)>>)>>, T_KEY, T_KW, NoTable),
     SlideSpec({"heading", "bullet_points"}, H_NUMBERED, <<Leaf(T_ICON1), Leaf(T_ICON2)>>, <<>>, <<>>, NoTable),
     SlideSpec({"heading", "bullet_points"}, H_PLAIN, <<Leaf(T_ICON1), Leaf(T_ICON_OPEN)>>, <<>>, <<>>, NoTable),
     SlideSpec({"heading", "table"}, H_PLAIN, <<>>, <<>>, <<>>,
               Table({"headers", "rows"}, <<T_A, T_B>>, <<(<<T_C, T_A>>)>>)),
     SlideSpec({"heading", "bullet_points", "key_message"}, H_PLAIN,
               <<Column({"heading", "bullet_points"}, T_A, <<Leaf(T_B)>>),
                 Column({"heading", "bullet_points"}, T_B, <<Leaf(T_C)>>)>>, T_KEY, <<>>, NoTable),
     SlideSpec({"heading", "bullet_points", "key_message"}, H_PLAIN,
               <<Leaf(T_S1), Leaf(T_S2), Leaf(T_S3)>>, T_KEY, <<>>, NoTable),
     SlideSpec({"heading"}, H_PLAIN, <<>>, <<>>, <<>>, NoTable)}

\* the longest deck built from CoreSlideSpecs
MaxSlides == 2

RECURSIVE SeqsUpTo(_, _)
\* the sequences over S of length at most n
SeqsUpTo(S, n) == IF n = 0 THEN {<<>>} ELSE SeqsUpTo(S, n - 1) \cup {Append(q, x) : q \in SeqsUpTo(S, n - 1), x \in S}

\* the 'slides' values tried: every single SlideSpec, and the short decks of core SlideSpecs
Decks == {<<s>> : s \in AllSlideSpecs} \cup SeqsUpTo(CoreSlideSpecs, MaxSlides)

\* parsed_data: keys is the set of top-level keys present
ParsedData(keys, title, slides) == [keys |-> keys, title |-> title, slides |-> slides]

Inputs ==
    {ParsedData({"title", "slides"}, T_DECK, d) : d \in Decks}
    \cup {ParsedData(ks, T_DECK, d) : ks \in {{}, {"title"}, {"slides"}}, d \in SeqsUpTo(CoreSlideSpecs, 1)}

\* the draws of random.random() tried, in thousandths
Draws == {333, 334, 799, 800}

(***************************************************************************)
(* generate_powerpoint_presentation as a state machine                     *)
(***************************************************************************)

VARIABLES
    parsed_data,        \* the argument parsed_data
    template,           \* the layouts of the template file the presentation is opened from
    pc,                 \* the position in generate_powerpoint_presentation
    idx,                \* the number of the SlideSpec the loop is at (a_slide = slides[idx])
    presentation,       \* presentation.slides
    is_processing_done, \* the local variable of the loop body
    all_headers,        \* the local variable all_headers
    saved,              \* the presentations written by presentation.save, in order
    result,             \* what the call has returned or raised so far
    calls,              \* the handler calls made so far: slide number, handler, outcome
    items,              \* argument of a stand-alone get_flat_list_of_contents call
    level,              \* argument of a stand-alone get_flat_list_of_contents call
    flat_list,          \* its return value, once called
    input_text,         \* argument text of a stand-alone format_text call
    paragraph_runs,     \* the runs it has added to frame_paragraph, once called
    json_response,      \* argument of a stand-alone get_photo_url_from_api_response call
    api_key_set,        \* whether the environment variable PEXEL_API_KEY is set
    photo_result,       \* what that call returned or raised, once called
    chat_history,       \* SlideDeckAI.chat_history.messages
    last_response,      \* SlideDeckAI.last_response
    llm_calls,          \* the number of times the LLM has been asked for a response
    generate_calls,     \* the number of generate() calls made on the object
    llm_failures,       \* the number of LLM requests that raised
    last_call,          \* the last method call on the object: its state before, its outcome
    model,              \* SlideDeckAI.model
    api_key,            \* SlideDeckAI.api_key
    template_idx,       \* SlideDeckAI.template_idx
    topic,              \* SlideDeckAI.topic
    range_call,         \* a stand-alone validate_page_range call: the pages of the PDF, start, end
    range_result        \* what that call returned, once called

vars == <<parsed_data, template, pc, idx, presentation, is_processing_done, all_headers,
          saved, result, calls, items, level, flat_list, input_text, paragraph_runs,
          json_response, api_key_set, photo_result,
          chat_history, last_response, llm_calls, generate_calls, llm_failures, last_call,
          model, api_key, template_idx, topic, range_call, range_result>>

flat_vars == <<items, level, flat_list>>

format_vars == <<input_text, paragraph_runs>>

photo_vars == <<json_response, api_key_set, photo_result>>

range_vars == <<range_call, range_result>>

\* the attributes of the SlideDeckAI object that configure it
config_vars == <<model, api_key, template_idx, topic>>

core_vars == <<chat_history, last_response, llm_calls, generate_calls, llm_failures, last_call,
               config_vars>>

\* the variables of the stand-alone calls of helper functions and of the SlideDeckAI object
helper_vars == <<flat_vars, format_vars, photo_vars, core_vars, range_vars>>

\* Python's None where a text is expected
NoneText == <<"None">>

\* get_flat_list_of_contents is not being called
NoFlat == items = <<>> /\ level = 0 /\ flat_list = <<>>

\* format_text is not being called
NoFormat == input_text = <<>> /\ paragraph_runs = <<>>

\* get_photo_url_from_api_response is not being called
NoPhoto ==
    /\ json_response = [keys |-> {}, photos |-> <<>>]
    /\ api_key_set = FALSE
    /\ photo_result = [raised |-> FALSE, photo_url |-> NoneText, page_url |-> NoneText]

\* validate_page_range is not being called
NoRange ==
    /\ range_call = [n_pages |-> 1, start |-> 1, end |-> 1]
    /\ range_result = [start |-> 1, end |-> 1, end_is_none |-> TRUE]

\* no SlideDeckAI object is in use
NoCore ==
    /\ chat_history = <<>>
    /\ last_response = NoneText
    /\ llm_calls = 0
    /\ generate_calls = 0
    /\ llm_failures = 0
    /\ last_call = [op |-> "none", outcome |-> "none", history_before |-> <<>>,
                    response_before |-> NoneText, llm_before |-> 0]
    /\ model = "none"
    /\ api_key = NoneText
    /\ template_idx = 0
    /\ topic = <<>>

\* the variables of a generate_powerpoint_presentation call, pc apart
deck_vars == <<parsed_data, template, idx, presentation, is_processing_done, all_headers,
               saved, result, calls>>

\* no generate_powerpoint_presentation call is under way
NoDeck ==
    /\ parsed_data = [keys |-> {}, title |-> <<>>, slides |-> <<>>]
    /\ template = StandardTemplate
    /\ idx = 0
    /\ presentation = <<>>
    /\ is_processing_done = FALSE
    /\ all_headers = <<>>
    /\ saved = <<>>
    /\ result = [kind |-> "none", value |-> <<>>]
    /\ calls = <<>>

NotCalled == [kind |-> "none", value |-> <<>>]

Init ==
    /\ parsed_data \in Inputs
    /\ template \in Templates
    /\ pc = "start"
    /\ idx = 0
    /\ presentation = <<>>
    /\ is_processing_done = FALSE
    /\ all_headers = <<>>
    /\ saved = <<>>
    /\ result = NotCalled
    /\ calls = <<>>
    /\ NoFlat
    /\ NoFormat
    /\ NoPhoto
    /\ NoRange
    /\ NoCore

a_slide == parsed_data.slides[idx]

\* the record of one handler call: the SlideSpec it was given, how it ended, and the
\* number of slides of the presentation before and after it
Call(handler, o) == [slide |-> idx, handler |-> handler,
                     outcome |-> IF o.raised THEN "raise" ELSE IF o.ret THEN "True" ELSE "False",
                     before |-> Len(presentation), after |-> Len(o.pres)]

\* TitleSlide reading the top-level keys with defaults instead of parsed_data[...]
TitleSlide_with_defaults ==
    /\ pc = "start"
    /\ presentation' = <<[[NewSlide(template, 0) EXCEPT !.title = parsed_data.title] EXCEPT !.frames[1] = TextSet(SUBTITLE)]>>
    /\ all_headers' = <<parsed_data.title>>
    /\ pc' = "for"
    /\ UNCHANGED <<parsed_data, template, idx, is_processing_done, saved, result, calls, helper_vars>>

\* lines 159-174: open the template, add the title slide, read 'title' and 'slides'
TitleSlide ==
    /\ pc = "start"
    /\ LET slide0 == NewSlide(template, 0)
           slide1 == [slide0 EXCEPT !.title = parsed_data.title]
           slide2 == [slide1 EXCEPT !.frames[1] = TextSet(SUBTITLE)]
       IN  IF "title" \notin parsed_data.keys
           THEN /\ presentation' = <<slide0>>
                /\ result' = [kind |-> "raise", value |-> <<>>]
                /\ pc' = "done"
                /\ UNCHANGED all_headers
           ELSE IF "slides" \notin parsed_data.keys
           THEN /\ presentation' = <<slide1>>
                /\ result' = [kind |-> "raise", value |-> <<>>]
                /\ pc' = "done"
                /\ UNCHANGED all_headers
           ELSE /\ presentation' = <<slide2>>
                /\ all_headers' = <<slide1.title>>
                /\ pc' = "for"
                /\ UNCHANGED result
    /\ UNCHANGED <<parsed_data, template, idx, is_processing_done, saved, calls, helper_vars>>

\* line 177: the for loop takes the next SlideSpec
ForNext ==
    /\ pc = "for"
    /\ idx < Len(parsed_data.slides)
    /\ idx' = idx + 1
    /\ pc' = "icons"
    /\ UNCHANGED <<parsed_data, template, presentation, is_processing_done, all_headers, saved, result, calls, helper_vars>>

\* line 177: the for loop is exhausted
ForEnd ==
    /\ pc = "for"
    /\ idx = Len(parsed_data.slides)
    /\ pc' = "thank_you"
    /\ UNCHANGED <<parsed_data, template, idx, presentation, is_processing_done, all_headers, saved, result, calls, helper_vars>>

\* Dispatch without the `if not is_processing_done` memory: the flag is lost
Dispatch_forgets_done(handler, o, next) ==
    /\ presentation' = o.pres
    /\ calls' = Append(calls, Call(handler, o))
    /\ IF o.raised THEN pc' = "for" ELSE pc' = next
    /\ is_processing_done' = FALSE
    /\ UNCHANGED <<parsed_data, template, idx, all_headers, saved, result, helper_vars>>

\* Dispatch without the try/except: an exception of a handler leaves the function
Dispatch_propagates(handler, o, next) ==
    /\ presentation' = o.pres
    /\ calls' = Append(calls, Call(handler, o))
    /\ IF o.raised
       THEN pc' = "done" /\ result' = [kind |-> "raise", value |-> <<>>] /\ UNCHANGED is_processing_done
       ELSE pc' = next /\ is_processing_done' = o.ret /\ UNCHANGED result
    /\ UNCHANGED <<parsed_data, template, idx, all_headers, saved, helper_vars>>

\* the effect of one handler call inside the try block: on an exception the except
\* clause continues with the next SlideSpec
Dispatch(handler, o, next) ==
    /\ presentation' = o.pres
    /\ calls' = Append(calls, Call(handler, o))
    /\ IF o.raised
       THEN pc' = "for" /\ UNCHANGED is_processing_done
       ELSE pc' = next /\ is_processing_done' = o.ret
    /\ UNCHANGED <<parsed_data, template, idx, all_headers, saved, result, helper_vars>>

\* `if not is_processing_done` is false: the handler is passed over
PassOver(next) ==
    /\ pc' = next
    /\ UNCHANGED <<parsed_data, template, idx, presentation, is_processing_done, all_headers, saved, result, calls, helper_vars>>

\* lines 179-184
HandleIconsIdeas ==
    /\ pc = "icons"
    /\ \E icons \in {"ok", "find_icons_raises", "add_picture_raises"} :
          Dispatch("icons", _handle_icons_ideas(presentation, template, a_slide, [icons |-> icons]), "table")

\* lines 186-192
HandleTable ==
    /\ pc = "table"
    /\ IF is_processing_done THEN PassOver("double_col")
       ELSE \E zero_cols \in {"raises", "empty_table"} :
               Dispatch("table", _handle_table(presentation, template, a_slide, [zero_cols |-> zero_cols]), "double_col")

\* lines 194-200
HandleDoubleColLayout ==
    /\ pc = "double_col"
    /\ IF is_processing_done THEN PassOver("step")
       ELSE Dispatch("double_col", _handle_double_col_layout(presentation, template, a_slide), "step")

\* lines 202-208
HandleStepByStepProcess ==
    /\ pc = "step"
    /\ IF is_processing_done THEN PassOver("default")
       ELSE Dispatch("step", _handle_step_by_step_process(presentation, template, a_slide), "default")

\* lines 210-216: the return value of _handle_default_display is not used
HandleDefaultDisplay ==
    /\ pc = "default"
    /\ IF is_processing_done THEN PassOver("for")
       ELSE \E d1 \in Draws, d2 \in Draws, search \in {"raises", "no_photo", "photo"}, download \in {"raises", "ok"} :
               LET o == _handle_default_display(presentation, template, a_slide,
                            [draw1 |-> d1, draw2 |-> d2, search |-> search, download |-> download])
               IN  /\ presentation' = o.pres
                   /\ calls' = Append(calls, Call("default", o))
                   /\ pc' = "for"
                   /\ UNCHANGED <<parsed_data, template, idx, is_processing_done, all_headers, saved, result, helper_vars>>

\* lines 227-230: the closing slide
ThankYouSlide ==
    /\ pc = "thank_you"
    /\ presentation' = Append(presentation, [NewSlide(template, 0) EXCEPT !.title = THANK_YOU])
    /\ pc' = "save"
    /\ UNCHANGED <<parsed_data, template, idx, is_processing_done, all_headers, saved, result, calls, helper_vars>>

\* line 232
Save ==
    /\ pc = "save"
    /\ saved' = Append(saved, presentation)
    /\ pc' = "return"
    /\ UNCHANGED <<parsed_data, template, idx, presentation, is_processing_done, all_headers, result, calls, helper_vars>>

\* line 234
Return ==
    /\ pc = "return"
    /\ result' = [kind |-> "return", value |-> all_headers]
    /\ pc' = "done"
    /\ UNCHANGED <<parsed_data, template, idx, presentation, is_processing_done, all_headers, saved, calls, helper_vars>>

Next ==
    \/ TitleSlide
    \/ ForNext
    \/ ForEnd
    \/ HandleIconsIdeas
    \/ HandleTable
    \/ HandleDoubleColLayout
    \/ HandleStepByStepProcess
    \/ HandleDefaultDisplay
    \/ ThankYouSlide
    \/ Save
    \/ Return

Spec == Init /\ [][Next]_vars

(***************************************************************************)
(* get_flat_list_of_contents called on its own                             *)
(***************************************************************************)

\* the number of nodes (strings and sub-lists) of the nested lists tried
MaxNodes == 4

\* the highest starting level tried
MaxLevel == 1

RECURSIVE Forests(_)
\* the nested bullet lists with exactly n nodes over the texts a and b
Forests(n) ==
    IF n = 0 THEN {<<>>}
    ELSE {<<Leaf(t)>> \o rest : t \in {T_A, T_B}, rest \in Forests(n - 1)}
         \cup UNION {{<<Group(sub)>> \o rest : sub \in Forests(k), rest \in Forests(n - 1 - k)} : k \in 0..(n - 1)}

InitFlat ==
    /\ items \in UNION {Forests(n) : n \in 0..MaxNodes}
    /\ level \in 0..MaxLevel
    /\ flat_list = <<>>
    /\ pc = "flat"
    /\ NoDeck
    /\ NoFormat
    /\ NoPhoto
    /\ NoRange
    /\ NoCore

\* flat_list = get_flat_list_of_contents(items, level)
Flatten ==
    /\ pc = "flat"
    /\ flat_list' = get_flat_list_of_contents(items, level)
    /\ pc' = "flat_done"
    /\ UNCHANGED <<deck_vars, items, level, format_vars, photo_vars, core_vars, range_vars>>

NextFlat == Flatten

SpecFlat == InitFlat /\ [][NextFlat]_vars

(***************************************************************************)
(* format_text called on its own                                           *)
(***************************************************************************)

\* the length of the longest text tried
MaxTextLen == 6

\* two letters, so that a reordering shows, and the asterisk
TextAlphabet == {"a", "b", "*"}

RECURSIVE Texts(_)
\* the texts of at most n characters
Texts(n) == IF n = 0 THEN {<<>>} ELSE Texts(n - 1) \cup {Append(t, ch) : t \in Texts(n - 1), ch \in TextAlphabet}

InitFormat ==
    /\ input_text \in Texts(MaxTextLen)
    /\ paragraph_runs = <<>>
    /\ pc = "format"
    /\ NoDeck
    /\ NoFlat
    /\ NoPhoto
    /\ NoRange
    /\ NoCore

\* format_text(frame_paragraph, input_text) on an empty paragraph
FormatText ==
    /\ pc = "format"
    /\ paragraph_runs' = format_text(input_text)
    /\ pc' = "format_done"
    /\ UNCHANGED <<deck_vars, flat_vars, input_text, photo_vars, core_vars, range_vars>>

NextFormat == FormatText

SpecFormat == InitFormat /\ [][NextFormat]_vars

(***************************************************************************)
(* get_photo_url_from_api_response (helpers/image_search.py) on its own    *)
(***************************************************************************)

MAX_PHOTOS == 3

\* the longest 'photos' list tried
MaxListed == 3

\* entry number i of a search response: keys and src_keys are the keys present in the
\* entry and in its 'src' object; each URL names the entry it belongs to
Photo(i, keys, src_keys) ==
    [keys |-> keys, src_keys |-> src_keys,
     url |-> <<"page", i>>, large |-> <<"large", i>>, original |-> <<"original", i>>]

\* the entries tried at position i
Photos(i) ==
    {Photo(i, keys, src_keys) : keys \in {{"url", "src"}, {"src"}},
                                src_keys \in {{"large", "original"}, {"large"}, {"original"}, {}}}
    \cup {Photo(i, {"url"}, {})}

RECURSIVE PhotoLists(_)
\* the 'photos' lists of exactly n entries
PhotoLists(n) == IF n = 0 THEN {<<>>} ELSE {Append(l, ph) : l \in PhotoLists(n - 1), ph \in Photos(n)}

\* get_photo_url_from_api_response(json_response) when random.choice returns photo_idx
get_photo_url_from_api_response(response, key_set, photo_idx) ==
    IF ~key_set
    THEN [raised |-> FALSE, photo_url |-> NoneText, page_url |-> NoneText]
    ELSE IF "photos" \in response.keys /\ response.photos # <<>>
    THEN IF photo_idx >= Len(response.photos)
         THEN [raised |-> TRUE, photo_url |-> NoneText, page_url |-> NoneText]
         ELSE LET photo == response.photos[photo_idx + 1]
              IN  [raised |-> FALSE,
                   photo_url |-> IF "src" \in photo.keys /\ "large" \in photo.src_keys THEN photo.large
                                 ELSE IF "src" \in photo.keys /\ "original" \in photo.src_keys THEN photo.original
                                 ELSE NoneText,
                   page_url |-> IF "url" \in photo.keys THEN photo.url ELSE NoneText]
    ELSE [raised |-> FALSE, photo_url |-> NoneText, page_url |-> NoneText]

InitPhoto ==
    /\ json_response \in {[keys |-> {}, photos |-> <<>>]}
                          \cup {[keys |-> {"photos"}, photos |-> l] : l \in UNION {PhotoLists(n) : n \in 0..MaxListed}}
    /\ api_key_set \in BOOLEAN
    /\ photo_result = [raised |-> FALSE, photo_url |-> NoneText, page_url |-> NoneText]
    /\ pc = "photo"
    /\ NoDeck
    /\ NoFlat
    /\ NoFormat
    /\ NoCore
    /\ NoRange

\* photo_url, page_url = get_photo_url_from_api_response(json_response);
\* random.choice(list(range(MAX_PHOTOS))) returns any of 0 .. MAX_PHOTOS - 1
GetPhotoUrl ==
    /\ pc = "photo"
    /\ \E photo_idx \in 0..(MAX_PHOTOS - 1) :
          photo_result' = get_photo_url_from_api_response(json_response, api_key_set, photo_idx)
    /\ pc' = "photo_done"
    /\ UNCHANGED <<deck_vars, flat_vars, format_vars, json_response, api_key_set, core_vars, range_vars>>

NextPhoto == GetPhotoUrl

SpecPhoto == InitPhoto /\ [][NextPhoto]_vars

(***************************************************************************)
(* validate_page_range (file_manager.py) on its own                        *)
(***************************************************************************)

\* the PDFs tried have up to this many pages
MaxPages == 3

\* start and end reach this far on both sides of zero
MaxPageArg == 5

Max2(a, b) == IF a >= b THEN a ELSE b
Min2(a, b) == IF a <= b THEN a ELSE b

\* the tuple (start, end)
PageRange(first, last) == [start |-> first, end |-> last, end_is_none |-> FALSE]

\* the tuple (start, None); the field end is of no meaning then
SinglePage(first) == [start |-> first, end |-> first, end_is_none |-> TRUE]

\* validate_page_range(pdf_file, start, end), n_pages = len(PdfReader(pdf_file).pages)
validate_page_range(n_pages, first, last) ==
    LET clamped_start == Max2(1, first)
        clamped_end == Min2(n_pages, last)
        new_start == IF clamped_start > clamped_end THEN 1 ELSE clamped_start
    IN  IF new_start = clamped_end
        THEN SinglePage(new_start)
        ELSE PageRange(new_start, clamped_end)

InitRange ==
    /\ range_call \in [n_pages : 1..MaxPages,
                       start : (0 - MaxPageArg)..MaxPageArg,
                       end : (0 - MaxPageArg)..MaxPageArg]
    /\ range_result = [start |-> 1, end |-> 1, end_is_none |-> TRUE]
    /\ pc = "range"
    /\ NoDeck
    /\ NoFlat
    /\ NoFormat
    /\ NoPhoto
    /\ NoCore

\* page_range = validate_page_range(pdf_file, start, end)
ValidatePageRange ==
    /\ pc = "range"
    /\ range_result' = validate_page_range(range_call.n_pages, range_call.start, range_call.end)
    /\ pc' = "range_done"
    /\ UNCHANGED <<range_call, deck_vars, flat_vars, format_vars, photo_vars, core_vars>>

NextRange == ValidatePageRange

SpecRange == InitRange /\ [][NextRange]_vars

(***************************************************************************)
(* SlideDeckAI (core.py): generate, revise and reset on one object         *)
(***************************************************************************)

\* revise() refuses once chat_history holds this many messages
HISTORY_LIMIT == 16

\* the number of generate() calls tried on one object
MaxGenerates == 2

\* the number of LLM requests that raise
MaxFailures == 1

\* a message of the chat history
Msg(role, content) == [role |-> role, content |-> content]

TOPIC == <<"topic">>
INSTRUCTIONS == <<"instructions">>
DECK_JSON == <<"deck">>

\* what text_helper.get_clean_json(response) can be: empty, or the JSON of a deck
CleanResponses == {<<>>, DECK_JSON}

\* `not self.last_response`
NotTruthy(response) == response = NoneText \/ response = <<>>

\* GlobalConfig.VALID_MODELS, two of its names
VALID_MODELS == {"[gg]gemini-2.5-flash", "[oa]gpt-4.1-mini"}

\* the model names a caller passes: the valid ones and one that is not
ModelNames == VALID_MODELS \cup {"no-such-model"}

KEY_1 == <<"key-1">>
KEY_2 == <<"key-2">>

\* the api_key arguments a caller passes: None, the empty string, a key
ApiKeys == {NoneText, <<>>, KEY_1, KEY_2}

\* len(GlobalConfig.PPTX_TEMPLATE_FILES)
NUM_TEMPLATES == 4

\* the template indexes a caller passes reach this far on both sides of zero
MaxTemplateArg == 5

TemplateArgs == (0 - MaxTemplateArg)..MaxTemplateArg

\* `idx if 0 <= idx < num_templates else 0`
ValidTemplateIdx(index) == IF 0 <= index /\ index < NUM_TEMPLATES THEN index ELSE 0

\* what a method call found and how it ended
CallRecord(op, outcome) ==
    [op |-> op, outcome |-> outcome, history_before |-> chat_history,
     response_before |-> last_response, llm_before |-> llm_calls]

\* how the steps of _generate_slide_deck go: json5.loads(json_str), json5.loads of the
\* repaired text when the first raised, generate_powerpoint_presentation when one parsed
BuildEnvs ==
    {[parse |-> "ok", repaired |-> "unused", deck |-> d] : d \in {"ok", "raises"}}
    \cup {[parse |-> "ValueError", repaired |-> "ok", deck |-> d] : d \in {"ok", "raises"}}
    \cup {[parse |-> "ValueError", repaired |-> "ValueError", deck |-> "unused"]}

\* _generate_slide_deck that gives up when the first parse fails
_generate_slide_deck_without_repair(env) ==
    IF env.parse # "ok"
    THEN "None"
    ELSE IF env.deck = "raises" THEN "None" ELSE "path"

\* SlideDeckAI._generate_slide_deck(json_str): the path of the .pptx file, or None
_generate_slide_deck(env) ==
    IF env.parse # "ok" /\ env.repaired # "ok"
    THEN "None"
    ELSE IF env.deck = "raises" THEN "None" ELSE "path"

\* a generate() or revise() call that reached _generate_slide_deck
BuildRecord(op, env) ==
    [op |-> op, outcome |-> _generate_slide_deck(env), history_before |-> chat_history,
     response_before |-> last_response, llm_before |-> llm_calls, env |-> env]

\* the common part of generate() and revise(): the user message is added, the LLM is
\* asked; its response becomes last_response and an AI message, and the deck is built
\* (an empty response parses neither as it is nor repaired into a deck)
AskAndBuild(op, content) ==
    /\ llm_calls' = llm_calls + 1
    /\ \/ /\ llm_failures < MaxFailures
          /\ llm_failures' = llm_failures + 1
          /\ chat_history' = Append(chat_history, Msg("user", content))
          /\ last_call' = CallRecord(op, "raised")
          /\ UNCHANGED last_response
       \/ \E response \in CleanResponses :
             /\ chat_history' = chat_history \o <<Msg("user", content), Msg("ai", response)>>
             /\ last_response' = response
             /\ \E env \in BuildEnvs :
                   /\ response = <<>> => env.parse # "ok" /\ _generate_slide_deck(env) = "None"
                   /\ last_call' = BuildRecord(op, env)
             /\ UNCHANGED llm_failures

\* SlideDeckAI.__init__(model, topic, api_key, template_idx=template_idx)
Constructed(model_name, a_topic, key, index) ==
    /\ model_name \in VALID_MODELS
    /\ model = model_name
    /\ topic = a_topic
    /\ api_key = key
    /\ template_idx = ValidTemplateIdx(index)
    /\ chat_history = <<>>
    /\ last_response = NoneText

\* no method has been called on the object yet
NoCalls ==
    /\ llm_calls = 0
    /\ generate_calls = 0
    /\ llm_failures = 0
    /\ last_call = [op |-> "none", outcome |-> "none", history_before |-> <<>>,
                    response_before |-> NoneText, llm_before |-> 0]

\* an object made for a conversation, with a key and the first or the last template
InitCore ==
    /\ \E index \in {0, NUM_TEMPLATES - 1} :
          Constructed("[gg]gemini-2.5-flash", TOPIC, KEY_1, index)
    /\ NoCalls
    /\ pc = "core"
    /\ NoDeck
    /\ NoFlat
    /\ NoFormat
    /\ NoPhoto
    /\ NoRange

\* SlideDeckAI.generate()
Generate ==
    /\ pc = "core"
    /\ generate_calls < MaxGenerates
    /\ generate_calls' = generate_calls + 1
    /\ AskAndBuild("generate", topic)
    /\ UNCHANGED <<pc, config_vars, deck_vars, flat_vars, format_vars, photo_vars, range_vars>>

\* revise() without the test of the length of the chat history
Revise_without_limit ==
    /\ pc = "core"
    /\ IF NotTruthy(last_response)
       THEN /\ last_call' = CallRecord("revise", "ValueError")
            /\ UNCHANGED <<chat_history, last_response, llm_calls, llm_failures>>
       ELSE /\ Len(chat_history) < HISTORY_LIMIT + 2
            /\ AskAndBuild("revise", INSTRUCTIONS)
    /\ UNCHANGED <<pc, generate_calls, config_vars, deck_vars, flat_vars, format_vars, photo_vars, range_vars>>

\* SlideDeckAI.revise(instructions)
Revise ==
    /\ pc = "core"
    /\ IF NotTruthy(last_response) \/ Len(chat_history) >= HISTORY_LIMIT
       THEN /\ last_call' = CallRecord("revise", "ValueError")
            /\ UNCHANGED <<chat_history, last_response, llm_calls, llm_failures>>
       ELSE AskAndBuild("revise", INSTRUCTIONS)
    /\ UNCHANGED <<pc, generate_calls, config_vars, deck_vars, flat_vars, format_vars, photo_vars, range_vars>>

\* what a call of reset, set_template or set_model was given and found
ConfigRecord(op, arg, outcome) ==
    [op |-> op, outcome |-> outcome, history_before |-> chat_history,
     response_before |-> last_response, llm_before |-> llm_calls,
     arg |-> arg, model_before |-> model, api_key_before |-> api_key,
     template_idx_before |-> template_idx, topic_before |-> topic]

\* reset() that keeps the template
Reset_keeps_template ==
    /\ pc = "core"
    /\ chat_history' = <<>>
    /\ last_response' = NoneText
    /\ topic' = <<>>
    /\ last_call' = ConfigRecord("reset", NoneText, "None")
    /\ UNCHANGED <<pc, template_idx, model, api_key, llm_calls, generate_calls, llm_failures,
                   deck_vars, flat_vars, format_vars, photo_vars, range_vars>>

\* SlideDeckAI.reset()
Reset ==
    /\ pc = "core"
    /\ chat_history' = <<>>
    /\ last_response' = NoneText
    /\ template_idx' = 0
    /\ topic' = <<>>
    /\ last_call' = ConfigRecord("reset", NoneText, "None")
    /\ UNCHANGED <<pc, model, api_key, llm_calls, generate_calls, llm_failures,
                   deck_vars, flat_vars, format_vars, photo_vars, range_vars>>

NextCore == Generate \/ Revise \/ Reset

SpecCore == InitCore /\ [][NextCore]_vars

(***************************************************************************)
(* SlideDeckAI (core.py): set_template, set_model and reset on one object  *)
(***************************************************************************)

\* an object made with any valid model, any key and any template index
InitConfig ==
    /\ \E model_name \in ModelNames, key \in ApiKeys, index \in TemplateArgs :
          Constructed(model_name, TOPIC, key, index)
    /\ NoCalls
    /\ pc = "core"
    /\ NoDeck
    /\ NoFlat
    /\ NoFormat
    /\ NoPhoto
    /\ NoRange

\* set_template() that stores the index as given
SetTemplate_unchecked ==
    /\ pc = "core"
    /\ \E index \in TemplateArgs :
          /\ template_idx' = index
          /\ last_call' = ConfigRecord("set_template", index, "None")
    /\ UNCHANGED <<pc, model, api_key, topic, chat_history, last_response, llm_calls,
                   generate_calls, llm_failures, deck_vars, flat_vars, format_vars, photo_vars, range_vars>>

\* SlideDeckAI.set_template(idx)
SetTemplate ==
    /\ pc = "core"
    /\ \E index \in TemplateArgs :
          /\ template_idx' = ValidTemplateIdx(index)
          /\ last_call' = ConfigRecord("set_template", index, "None")
    /\ UNCHANGED <<pc, model, api_key, topic, chat_history, last_response, llm_calls,
                   generate_calls, llm_failures, deck_vars, flat_vars, format_vars, photo_vars, range_vars>>

\* set_model() that takes whatever key it is passed
SetModel_any_key ==
    /\ pc = "core"
    /\ \E model_name \in ModelNames, key \in ApiKeys :
          LET arg == [model_name |-> model_name, api_key |-> key] IN
          IF model_name \notin VALID_MODELS
          THEN /\ last_call' = ConfigRecord("set_model", arg, "ValueError")
               /\ UNCHANGED <<model, api_key>>
          ELSE /\ model' = model_name
               /\ api_key' = key
               /\ last_call' = ConfigRecord("set_model", arg, "None")
    /\ UNCHANGED <<pc, template_idx, topic, chat_history, last_response, llm_calls,
                   generate_calls, llm_failures, deck_vars, flat_vars, format_vars, photo_vars, range_vars>>

\* SlideDeckAI.set_model(model_name, api_key)
SetModel ==
    /\ pc = "core"
    /\ \E model_name \in ModelNames, key \in ApiKeys :
          LET arg == [model_name |-> model_name, api_key |-> key] IN
          IF model_name \notin VALID_MODELS
          THEN /\ last_call' = ConfigRecord("set_model", arg, "ValueError")
               /\ UNCHANGED <<model, api_key>>
          ELSE /\ model' = model_name
               /\ api_key' = IF key = NoneText \/ key = <<>> THEN api_key ELSE key
               /\ last_call' = ConfigRecord("set_model", arg, "None")
    /\ UNCHANGED <<pc, template_idx, topic, chat_history, last_response, llm_calls,
                   generate_calls, llm_failures, deck_vars, flat_vars, format_vars, photo_vars, range_vars>>

NextConfig == SetTemplate \/ SetModel \/ Reset

SpecConfig == InitConfig /\ [][NextConfig]_vars

(***************************************************************************)
(* Properties                                                              *)
(***************************************************************************)

HandlerOrder == <<"icons", "table", "double_col", "step", "default">>
OrderPos(h) == CHOOSE n \in 1..Len(HandlerOrder) : HandlerOrder[n] = h

\* the SlideSpec a recorded call was given
SpecOf(c) == parsed_data.slides[c.slide]

\* the call added exactly one slide, which is presentation[c.after]
AddedOne(c) == c.after = c.before + 1

\* the SlideSpec carries a non-empty key_message
HasKeyMessage(s) == "key_message" \in s.keys /\ s.key_message # <<>>

\* the number of key-message callouts on a slide
KeyMessageShapes(slide) == Cardinality({n \in 1..Len(slide.shapes) : slide.shapes[n].role = "key_message"})

\* bullet_points is a flat list of 3 to 6 strings
FlatSteps3to6(s) ==
    /\ "bullet_points" \in s.keys
    /\ Len(s.bullet_points) >= 3 /\ Len(s.bullet_points) <= 6
    /\ \A n \in 1..Len(s.bullet_points) : s.bullet_points[n].k = "str"

\* the text with every asterisk taken out
Unstarred(t) == SelectSeq(t, LAMBDA ch : ch # "*")

\* the visible text of a shape
ShapeText(shape) == Concat([n \in 1..Len(shape.frame) |-> RunsText(shape.frame[n].runs)])

\* the template carries the standard placeholder indices and every SlideSpec has a heading
Ordinary ==
    /\ template = StandardTemplate
    /\ \A i \in 1..Len(parsed_data.slides) : "heading" \in parsed_data.slides[i].keys

\* C1: for every SlideSpec the handlers are called in the order icon-grid, table,
\* double-column, step-process, default, starting with icon-grid, and a handler is
\* called only if the one before it returned False; a slide the icon-grid handler
\* accepts is rendered on the icon layout whatever else it would satisfy
C1_FirstMatchWins ==
    \A n \in 1..Len(calls) :
        /\ IF n = 1 \/ calls[n - 1].slide # calls[n].slide
           THEN calls[n].handler = "icons"
           ELSE /\ calls[n - 1].outcome = "False"
                /\ OrderPos(calls[n].handler) = OrderPos(calls[n - 1].handler) + 1
        /\ (calls[n].handler = "icons" /\ calls[n].outcome = "True")
              => (AddedOne(calls[n]) /\ presentation[calls[n].after].layout = 5)

\* a SlideSpec with icon bullets and a valid table went to the icon-grid and nowhere else
C1_Witness ==
    /\ pc = "done"
    /\ Len(calls) = 1
    /\ calls[1].handler = "icons" /\ calls[1].outcome = "True"
    /\ "table" \in SpecOf(calls[1]).keys
    /\ SpecOf(calls[1]).table.headers # <<>>
    /\ presentation[2].layout = 5

\* C2: with a standard template, when no handler raised, the saved presentation is the title slide, one content
\* slide per SlideSpec in input order, and the closing slide: N + 2 slides
C2_OneSlidePerSpec ==
    (Ordinary /\ saved # <<>> /\ \A n \in 1..Len(calls) : calls[n].outcome # "raise")
        => /\ Len(saved[1]) = Len(parsed_data.slides) + 2
           /\ saved[1][1].layout = 0 /\ saved[1][1].title = parsed_data.title
           /\ saved[1][Len(saved[1])].title = THANK_YOU
           /\ \A i \in 1..Len(parsed_data.slides) :
                 saved[1][i + 1].title = remove_slide_number_from_heading(parsed_data.slides[i].heading)

\* C3: a handler that raises does not end the call: it never makes the call raise, every
\* SlideSpec is still dispatched, and the presentation is saved exactly once, after the
\* closing slide was appended
C3_FaultIsolation ==
    /\ Len(saved) <= 1
    /\ saved # <<>> => (saved[1] = presentation /\ saved[1][Len(saved[1])].title = THANK_YOU)
    /\ (\E n \in 1..Len(calls) : calls[n].outcome = "raise")
          => /\ result.kind # "raise"
             /\ pc = "done" => /\ result.kind = "return"
                               /\ Len(saved) = 1
                               /\ \A i \in 1..Len(parsed_data.slides) : \E m \in 1..Len(calls) : calls[m].slide = i

\* the first of two SlideSpecs raised, the second was dispatched and the deck was saved
C3_Witness ==
    /\ pc = "done"
    /\ Len(parsed_data.slides) = 2
    /\ calls # <<>>
    /\ calls[1].slide = 1 /\ calls[1].outcome = "raise"
    /\ \E m \in 1..Len(calls) : calls[m].slide = 2 /\ calls[m].outcome = "True"
    /\ Len(saved) = 1

\* C4: with a standard template and headings present, a handler call that raises leaves
\* no slide behind
C4_RaisingSpecAddsNoSlide ==
    Ordinary => \A n \in 1..Len(calls) : calls[n].outcome = "raise" => calls[n].after = calls[n].before

\* C5: without the top-level 'title' or 'slides' key the call raises before any
\* SlideSpec is dispatched and nothing is ever saved
C5_StructuralError ==
    ("title" \notin parsed_data.keys \/ "slides" \notin parsed_data.keys)
        => /\ saved = <<>>
           /\ calls = <<>>
           /\ pc \in {"start", "done"}
           /\ pc = "done" => result.kind = "raise"

\* 'title' is there, 'slides' is missing, and the call has raised
C5_Witness ==
    /\ pc = "done"
    /\ "title" \in parsed_data.keys /\ "slides" \notin parsed_data.keys
    /\ result.kind = "raise"
    /\ saved = <<>>

\* C6: with a standard template and no handler raising, the list returned is the deck title followed by the heading of every content slide
C6_ReturnsAllHeaders ==
    (Ordinary /\ result.kind = "return" /\ \A n \in 1..Len(calls) : calls[n].outcome # "raise")
        => result.value = <<parsed_data.title>> \o [i \in 1..(Len(presentation) - 2) |-> presentation[i + 1].title]

\* C7: with a standard template, a slide rendered by the double-column, step-process or default handler carries
\* exactly one key-message callout when key_message is non-empty; every other rendered
\* slide carries none
C7_KeyMessageCallout ==
    \A n \in 1..Len(calls) :
        (Ordinary /\ calls[n].outcome # "raise" /\ AddedOne(calls[n]))
            => KeyMessageShapes(presentation[calls[n].after])
                  = IF calls[n].handler \in {"double_col", "step", "default"} /\ HasKeyMessage(SpecOf(calls[n]))
                    THEN 1 ELSE 0

\* C8: with a standard template and a heading, the step-process handler returns True only for a flat list of 3 to 6 strings; for
\* any other bullet_points (missing, empty, too short, too long, not all strings) it
\* returns False and adds no slide
C8_StepOnlyFlat3to6 ==
    \A n \in 1..Len(calls) :
        (Ordinary /\ calls[n].handler = "step")
            => /\ calls[n].outcome = "True" => FlatSteps3to6(SpecOf(calls[n]))
               /\ ~FlatSteps3to6(SpecOf(calls[n])) => (calls[n].outcome = "False" /\ calls[n].after = calls[n].before)

\* the steps that do not start with the marker are at most a quarter, or the heading waives it
StepRule(s) ==
    \/ 4 * Cardinality({n \in 1..Len(s.bullet_points) : ~StartsWith(s.bullet_points[n].t, STEP_BY_STEP_PROCESS_MARKER)})
          <= Len(s.bullet_points)
    \/ Contains(Lower(s.heading), STEP_HYPHEN)
    \/ Contains(Lower(s.heading), STEP_BLANK)

\* the slide is the process layout of the steps, the shape texts obeying TextOk(text, step)
ProcessSlide(slide, s, TextOk(_, _)) ==
    /\ slide.layout = 1
    /\ Len(slide.shapes) = Len(s.bullet_points)
    /\ \A n \in 1..Len(slide.shapes) :
          /\ slide.shapes[n].type = IF Len(s.bullet_points) <= 4 THEN "CHEVRON" ELSE "PENTAGON"
          /\ TextOk(ShapeText(slide.shapes[n]), RemovePrefix(s.bullet_points[n].t, STEP_BY_STEP_PROCESS_MARKER))

\* the step-process rule with the shape texts obeying TextOk
StepClaim(TextOk(_, _)) ==
    \A n \in 1..Len(calls) :
        (calls[n].handler = "step" /\ "heading" \in SpecOf(calls[n]).keys /\ FlatSteps3to6(SpecOf(calls[n])))
            => IF StepRule(SpecOf(calls[n]))
               THEN /\ calls[n].outcome = "True" /\ AddedOne(calls[n])
                    /\ ProcessSlide(presentation[calls[n].after], SpecOf(calls[n]), TextOk)
               ELSE calls[n].outcome = "False" /\ calls[n].after = calls[n].before

RECURSIVE LeafPaths(_)
\* the index paths of the string leaves of a nested list
LeafPaths(forest) ==
    UNION {IF forest[i].k = "str" THEN {<<i>>}
           ELSE {<<i>> \o p : p \in LeafPaths(forest[i].c)} : i \in 1..Len(forest)}

RECURSIVE NodeAt(_, _)
\* the node a path leads to
NodeAt(forest, p) == IF Len(p) = 1 THEN forest[p[1]] ELSE NodeAt(forest[p[1]].c, Tail(p))

\* p comes before q in left-to-right depth-first order
Before(p, q) ==
    \E k \in 1..Len(p) : k <= Len(q) /\ p[k] < q[k] /\ \A j \in 1..(k - 1) : p[j] = q[j]

\* C10: get_flat_list_of_contents returns one (text, depth) pair per string leaf, in
\* left-to-right depth-first order, a leaf inside k sub-lists at depth level + k
C10_FlattenLeaves ==
    pc = "flat_done"
        => /\ Len(flat_list) = Cardinality(LeafPaths(items))
           /\ \A p \in LeafPaths(items) :
                 flat_list[1 + Cardinality({q \in LeafPaths(items) : Before(q, p)})]
                    = <<NodeAt(items, p).t, level + Len(p) - 1>>

\* an empty sub-list next to a leaf two sub-lists deep
C10_Witness ==
    /\ pc = "flat_done"
    /\ \E i \in 1..Len(items) : items[i].k = "list" /\ items[i].c = <<>>
    /\ \E n \in 1..Len(flat_list) : flat_list[n][2] = level + 2

(***************************************************************************)
(* format_text                                                             *)
(***************************************************************************)

\* the positions of the asterisks that delimit the spans BOLD_ITALICS_PATTERN finds
MarkerPositions(t) ==
    LET matches == finditer(t, 1)
    IN  UNION {IF matches[n].alt = 2
               THEN {matches[n].start, matches[n].start + 1, matches[n].end - 2, matches[n].end - 1}
               ELSE {matches[n].start, matches[n].end - 1} : n \in 1..Len(matches)}

\* the text without the asterisks at those positions
WithoutMarkers(t) ==
    LET kept == SelectSeq([i \in 1..Len(t) |-> i], LAMBDA i : i \notin MarkerPositions(t))
    IN  [n \in 1..Len(kept) |-> t[kept[n]]]

LoneMarker(t) ==
    LET stars == {i \in 1..Len(t) : t[i] = "*"}
    IN  /\ stars # {}
        /\ Cardinality(stars) <= 2
        /\ \A i \in stars, j \in stars : j - i \in {-1, 0, 1}
        /\ \E i \in 1..Len(t) : t[i] # "*" /\ \A j \in stars : j < i

\* C12: a text whose only asterisks are one opening marker ('*' or '**') that is never
\* closed is added as it is, asterisks included, in one run that is neither bold nor italic.
C12_UnterminatedMarkerLiteral ==
    pc = "format_done" /\ LoneMarker(input_text) =>
        paragraph_runs = <<Run(input_text, FALSE, FALSE)>>

(***************************************************************************)
(* Placeholder fallback                                                    *)
(***************************************************************************)

\* the SlideSpec has a heading and bullet points, and so has every column in it
WellFormed(s) ==
    /\ {"heading", "bullet_points"} \subseteq s.keys
    /\ \A n \in 1..Len(s.bullet_points) :
          s.bullet_points[n].k = "dict" => {"heading", "bullet_points"} \subseteq s.bullet_points[n].keys

\* the layout has no placeholder for the body role of the handler: not at the standard
\* index and not by name
NoBodyPlaceholder(tpl, handler) ==
    IF handler = "double_col"
    THEN /\ KeyErrorPH(NewSlide(tpl, 4), 2) \/ KeyErrorPH(NewSlide(tpl, 4), 4)
         /\ None \in {FirstTwo(get_slide_placeholders(NewSlide(tpl, 4)), KW_CONTENT_PLACEHOLDER)[n] : n \in 1..2}
    ELSE /\ BodyShape(NewSlide(tpl, 1)) = None
         /\ KeyErrorPH(NewSlide(tpl, 8), 2)
         /\ LastOne(get_slide_placeholders(NewSlide(tpl, 8)), KW_CONTENT) = None

\* C13: when a layout has no placeholder for a role, neither at the standard index nor by
\* name, the double-column and default (text-only, foreground, background) handlers do
\* not raise on a SlideSpec that has its heading and bullet points.
C13_FallbackNeverRaises ==
    \A n \in 1..Len(calls) :
        /\ calls[n].handler \in {"double_col", "default"}
        /\ NoBodyPlaceholder(template, calls[n].handler)
        /\ WellFormed(SpecOf(calls[n]))
        => calls[n].outcome # "raise"

\* the idx of the non-title placeholders of a layout whose lower-case name contains the
\* keyword, in the order of the layout
NamedLike(layout, keyword) ==
    LET hits == SelectSeq([n \in 1..(Len(layout) - 1) |-> layout[n + 1]],
                          LAMBDA ph : Contains(Lower(ph.name), keyword))
    IN  [n \in 1..Len(hits) |-> hits[n].idx]

\* the paragraphs add_bulleted_items leaves in an empty placeholder for a column's bullets
ColumnBody(col) == add_bulleted_items(EmptyFrame, get_flat_list_of_contents(col.c, 0))

\* C14: on a slide the double-column handler rendered with a layout that lacks a standard
\* heading index (1, 3) or body index (2, 4), the first placeholder named like the role
\* holds the left column and the second one the right column: 'text placeholder' for the
\* column headings, 'content placeholder' for the bullets; the two are different placeholders.
C14_NthMatchServesNthColumn ==
    \A n \in 1..Len(calls) :
        calls[n].handler = "double_col" /\ calls[n].outcome = "True" /\ WellFormed(SpecOf(calls[n])) =>
            LET slide == presentation[calls[n].after]
                cols == SpecOf(calls[n]).bullet_points
                heads == NamedLike(template[4], KW_TEXT_PLACEHOLDER)
                bodies == NamedLike(template[4], KW_CONTENT_PLACEHOLDER)
            IN  /\ (KeyErrorPH(slide, 1) \/ KeyErrorPH(slide, 3)) /\ Len(heads) >= 2 =>
                      /\ heads[1] # heads[2]
                      /\ slide.frames[heads[1]] = TextSet(cols[1].t)
                      /\ slide.frames[heads[2]] = TextSet(cols[2].t)
                /\ (KeyErrorPH(slide, 2) \/ KeyErrorPH(slide, 4)) /\ Len(bodies) >= 2 =>
                      /\ bodies[1] # bodies[2]
                      /\ slide.frames[bodies[1]] = ColumnBody(cols[1])
                      /\ slide.frames[bodies[2]] = ColumnBody(cols[2])

\* a double-column slide rendered through the fallback for both roles, of two columns
\* that differ in heading and in bullets, on a layout with a placeholder of another name
C14_Witness ==
    \E n \in 1..Len(calls) :
        /\ calls[n].handler = "double_col" /\ calls[n].outcome = "True" /\ WellFormed(SpecOf(calls[n]))
        /\ KeyErrorPH(presentation[calls[n].after], 3)
        /\ KeyErrorPH(presentation[calls[n].after], 4)
        /\ Len(NamedLike(template[4], KW_TEXT_PLACEHOLDER)) + Len(NamedLike(template[4], KW_CONTENT_PLACEHOLDER))
             < Len(template[4]) - 1
        /\ SpecOf(calls[n]).bullet_points[1].t # SpecOf(calls[n]).bullet_points[2].t
        /\ ColumnBody(SpecOf(calls[n]).bullet_points[1]) # ColumnBody(SpecOf(calls[n]).bullet_points[2])

(***************************************************************************)
(* Layout rules                                                            *)
(***************************************************************************)

\* the item has the form '[[icon_name]] caption'
IconForm(item) ==
    /\ item.k = "str"
    /\ StartsWith(item.t, ICON_BEGINNING_MARKER)
    /\ \E b \in 3..Len(item.t) : OccursAt(item.t, ICON_END_MARKER, b)

\* bullet_points is there, not empty, and every item has the icon form
EveryItemIconForm(s) ==
    /\ "bullet_points" \in s.keys
    /\ s.bullet_points # <<>>
    /\ \A n \in 1..Len(s.bullet_points) : IconForm(s.bullet_points[n])

\* C15: on a SlideSpec with a heading, the icon-grid handler returns True only if
\* bullet_points is non-empty and every item has the form '[[icon_name]] caption'; if
\* some item has not, it returns False and adds no slide.
C15_IconGridIffEveryItemMatches ==
    \A n \in 1..Len(calls) :
        calls[n].handler = "icons" /\ "heading" \in SpecOf(calls[n]).keys =>
            /\ calls[n].outcome = "True" => EveryItemIconForm(SpecOf(calls[n]))
            /\ ~EveryItemIconForm(SpecOf(calls[n])) =>
                  calls[n].outcome = "False" /\ calls[n].after = calls[n].before

\* the SlideSpec has a table with headers and rows, both non-empty
HeadersAndRows(s) ==
    /\ "table" \in s.keys
    /\ {"headers", "rows"} \subseteq s.table.keys
    /\ s.table.headers # <<>>
    /\ s.table.rows # <<>>

\* the table shape holds the headers in bold in row 0 and rows[i] in row i + 1
TableAsGiven(shape, t) ==
    /\ shape.type = "TABLE"
    /\ Len(shape.cells) = Len(t.rows) + 1
    /\ \A r \in 1..Len(shape.cells) : Len(shape.cells[r]) = Len(t.headers)
    /\ \A c \in 1..Len(t.headers) : shape.cells[1][c] = Cell(t.headers[c], TRUE)
    /\ \A r \in 1..Len(t.rows) : \A c \in 1..Len(t.rows[r]) : shape.cells[r + 1][c].text = t.rows[r][c]

\* C16: with a standard template and a heading, the table handler returns True only for a
\* table with non-empty headers and non-empty rows, and the slide it adds then holds one
\* table of len(rows)+1 rows and len(headers) columns, headers bold in row 0 and rows[i]
\* in row i+1; for every other SlideSpec it returns False and adds no slide.
C16_TableIffHeadersAndRows ==
    \A n \in 1..Len(calls) :
        /\ calls[n].handler = "table"
        /\ template = StandardTemplate
        /\ "heading" \in SpecOf(calls[n]).keys
        => /\ calls[n].outcome = "True" =>
                /\ HeadersAndRows(SpecOf(calls[n]))
                /\ calls[n].after = calls[n].before + 1
                /\ Len(presentation[calls[n].after].shapes) = 1
                /\ TableAsGiven(presentation[calls[n].after].shapes[1], SpecOf(calls[n]).table)
           /\ ~HeadersAndRows(SpecOf(calls[n])) =>
                calls[n].outcome = "False" /\ calls[n].after = calls[n].before

\* bullet_points has exactly two elements and both are dicts
TwoColumns(s) ==
    /\ "bullet_points" \in s.keys
    /\ Len(s.bullet_points) = 2
    /\ s.bullet_points[1].k = "dict"
    /\ s.bullet_points[2].k = "dict"

\* the placeholders of the comparison layout for one role: the standard pair if both are
\* there, else the ones named like the role
RolePlaceholders(tpl, standard, keyword) ==
    IF {standard[1], standard[2]} \subseteq {tpl[4][n].idx : n \in 2..Len(tpl[4])}
    THEN standard ELSE NamedLike(tpl[4], keyword)

\* the comparison layout has two heading and two body placeholders
TwoColumnLayout(tpl) ==
    /\ Len(RolePlaceholders(tpl, <<1, 3>>, KW_TEXT_PLACEHOLDER)) >= 2
    /\ Len(RolePlaceholders(tpl, <<2, 4>>, KW_CONTENT_PLACEHOLDER)) >= 2

\* column number side (1 left, 2 right) of the SlideSpec is on the slide: its heading in
\* the heading placeholder of that side, its flattened bullets in the body placeholder
ColumnOnSlide(slide, tpl, col, side) ==
    /\ "heading" \in col.keys =>
          slide.frames[RolePlaceholders(tpl, <<1, 3>>, KW_TEXT_PLACEHOLDER)[side]] = TextSet(col.t)
    /\ "bullet_points" \in col.keys =>
          slide.frames[RolePlaceholders(tpl, <<2, 4>>, KW_CONTENT_PLACEHOLDER)[side]] = ColumnBody(col)

\* C17: on a SlideSpec with a heading and a comparison layout with two heading and two body
\* placeholders, the double-column handler returns True and adds one slide if and only if
\* bullet_points has exactly two elements, both dicts; the slide then has element 0's heading
\* and flattened bullets in the left heading and body and element 1's in the right ones;
\* otherwise the handler returns False and adds no slide.
C17_DoubleColumnIffTwoDicts ==
    \A n \in 1..Len(calls) :
        /\ calls[n].handler = "double_col"
        /\ "heading" \in SpecOf(calls[n]).keys
        /\ TwoColumnLayout(template)
        => IF TwoColumns(SpecOf(calls[n]))
           THEN /\ calls[n].outcome = "True"
                /\ calls[n].after = calls[n].before + 1
                /\ presentation[calls[n].after].layout = 4
                /\ ColumnOnSlide(presentation[calls[n].after], template, SpecOf(calls[n]).bullet_points[1], 1)
                /\ ColumnOnSlide(presentation[calls[n].after], template, SpecOf(calls[n]).bullet_points[2], 2)
           ELSE calls[n].outcome = "False" /\ calls[n].after = calls[n].before

\* a double-column slide of two different columns on the standard layout, the right one
\* with nested bullets
C17_Witness ==
    /\ template = StandardTemplate
    /\ \E n \in 1..Len(calls) :
          /\ calls[n].handler = "double_col" /\ calls[n].outcome = "True"
          /\ WellFormed(SpecOf(calls[n]))
          /\ SpecOf(calls[n]).bullet_points[1].t # SpecOf(calls[n]).bullet_points[2].t
          /\ ColumnBody(SpecOf(calls[n]).bullet_points[1]) # ColumnBody(SpecOf(calls[n]).bullet_points[2])
          /\ Len(ColumnBody(SpecOf(calls[n]).bullet_points[2])) >= 2

(***************************************************************************)
(* Image failures                                                          *)
(***************************************************************************)

\* the layouts of the default handler have a body placeholder, by index or by name
DefaultLayoutsUsable(tpl) ==
    /\ BodyShape(NewSlide(tpl, 1)) # None
    /\ ~KeyErrorPH(NewSlide(tpl, 8), 2) \/ LastOne(get_slide_placeholders(NewSlide(tpl, 8)), KW_CONTENT) # None

\* the slide has the title of the SlideSpec and a placeholder with all its bullets
TitleAndBullets(slide, s) ==
    /\ slide.title = remove_slide_number_from_heading(s.heading)
    /\ \E i \in DOMAIN slide.frames :
          slide.frames[i] = add_bulleted_items(EmptyFrame, get_flat_list_of_contents(s.bullet_points, 0))

\* the slide has a picture on it
HasPicture(slide) == \E k \in 1..Len(slide.shapes) : slide.shapes[k].type = "PICTURE"

\* C18: whatever the photo search, the URL selection and the download do (raise, find
\* nothing, deliver), a default-handler call on a SlideSpec with heading, bullets and image
\* keywords does not raise, is reported as handled and adds one slide with the title and
\* all the bullets.
C18_ImageFailureContained ==
    \A n \in 1..Len(calls) :
        /\ calls[n].handler = "default"
        /\ {"heading", "bullet_points", "img_keywords"} \subseteq SpecOf(calls[n]).keys
        /\ DefaultLayoutsUsable(template)
        => /\ calls[n].outcome = "True"
           /\ calls[n].after = calls[n].before + 1
           /\ TitleAndBullets(presentation[calls[n].after], SpecOf(calls[n]))

\* an image attempt that failed: the picture-with-caption layout was chosen for a SlideSpec
\* with image keywords, and the slide is there without a picture, with its bullets
C18_Witness ==
    \E n \in 1..Len(calls) :
        /\ calls[n].handler = "default"
        /\ calls[n].outcome = "True"
        /\ Strip(SpecOf(calls[n]).img_keywords) # <<>>
        /\ SpecOf(calls[n]).bullet_points # <<>>
        /\ presentation[calls[n].after].layout = 8
        /\ ~HasPicture(presentation[calls[n].after])
        /\ template = StandardTemplate
        /\ TitleAndBullets(presentation[calls[n].after], SpecOf(calls[n]))

(***************************************************************************)
(* Photo selection                                                         *)
(***************************************************************************)

\* the image URL of an entry: src.large when present, src.original otherwise
ImageUrl(photo) ==
    IF "src" \in photo.keys /\ "large" \in photo.src_keys THEN photo.large
    ELSE IF "src" \in photo.keys /\ "original" \in photo.src_keys THEN photo.original
    ELSE NoneText

\* C19: with the API key set and 1, 2 or 3 entries in 'photos', each with its page URL and
\* an image URL in 'src', the call does not raise and returns the image URL (src.large, else
\* src.original) and the page URL of one and the same entry of the list.
C19_PhotoChosenAmongPresent ==
    /\ pc = "photo_done"
    /\ api_key_set
    /\ "photos" \in json_response.keys
    /\ Len(json_response.photos) \in 1..3
    /\ \A i \in 1..Len(json_response.photos) :
          json_response.photos[i].keys = {"url", "src"} /\ json_response.photos[i].src_keys # {}
    => /\ ~photo_result.raised
       /\ \E i \in 1..Len(json_response.photos) :
             /\ photo_result.photo_url = ImageUrl(json_response.photos[i])
             /\ photo_result.page_url = IF "url" \in json_response.photos[i].keys
                                         THEN json_response.photos[i].url ELSE NoneText

(***************************************************************************)
(* SlideDeckAI.revise                                                      *)
(***************************************************************************)

\* C20: a revise() call made when last_response is None or empty, or when the chat history
\* holds 16 or more messages, raises ValueError and leaves the chat history, last_response
\* and the number of LLM requests as they were.
C20_ReviseRefuses ==
    /\ pc = "core"
    /\ last_call.op = "revise"
    /\ \/ last_call.response_before \in {NoneText, <<>>}
       \/ Len(last_call.history_before) >= 16
    => /\ last_call.outcome = "ValueError"
       /\ chat_history = last_call.history_before
       /\ last_response = last_call.response_before
       /\ llm_calls = last_call.llm_before

\* a deck was generated and revised until the history was full, and revise() was called again
C20_Witness ==
    /\ pc = "core"
    /\ last_call.op = "revise"
    /\ last_call.outcome = "ValueError"
    /\ last_response = DECK_JSON
    /\ Len(chat_history) >= 16
    /\ llm_calls >= 8

C22_TemplateIdxInRange ==
    /\ 0 <= template_idx
    /\ template_idx < NUM_TEMPLATES
    /\ last_call.op = "set_template" =>
          IF 0 <= last_call.arg /\ last_call.arg < NUM_TEMPLATES
          THEN template_idx = last_call.arg
          ELSE template_idx = 0
    /\ last_call.op = "reset" => template_idx = 0

\* the last template was selected, and set_template() was then given the number of
\* templates, the first index past the range
C22_Witness ==
    /\ last_call.op = "set_template"
    /\ last_call.arg = NUM_TEMPLATES
    /\ last_call.template_idx_before = NUM_TEMPLATES - 1
    /\ template_idx = 0

\* C23: set_model() with a name that is not a valid model raises ValueError and leaves
\* model and api_key as they were; with a valid name it sets model, and it replaces
\* api_key only when a non-empty key is passed
C23_SetModel ==
    last_call.op = "set_model" =>
        IF last_call.arg.model_name \notin VALID_MODELS
        THEN /\ last_call.outcome = "ValueError"
             /\ model = last_call.model_before
             /\ api_key = last_call.api_key_before
        ELSE /\ last_call.outcome = "None"
             /\ model = last_call.arg.model_name
             /\ api_key = IF last_call.arg.api_key \in {KEY_1, KEY_2}
                          THEN last_call.arg.api_key
                          ELSE last_call.api_key_before

\* an object that holds a key was given another valid model and the empty string as key
C23_Witness ==
    /\ last_call.op = "set_model"
    /\ last_call.outcome = "None"
    /\ last_call.arg.api_key = <<>>
    /\ last_call.api_key_before = KEY_1
    /\ last_call.model_before # model
    /\ api_key = KEY_1

\* C24: _generate_slide_deck returns None exactly when the JSON parses neither as it is
\* nor after the repair, or when generate_powerpoint_presentation raises; in every other
\* case, the one of a failed first parse and a repaired text that parses included, it
\* returns the path of the .pptx file
C24_NoneIffUnparsableOrDeckRaises ==
    (last_call.op \in {"generate", "revise"} /\ last_call.outcome \in {"path", "None"}) =>
        /\ last_call.outcome = "None" <=>
              \/ last_call.env.parse = "ValueError" /\ last_call.env.repaired = "ValueError"
              \/ last_call.env.deck = "raises"
        /\ last_call.outcome = "path" <=>
              /\ last_call.env.parse = "ok" \/ last_call.env.repaired = "ok"
              /\ last_call.env.deck = "ok"

\* the first parse of the response failed, the repaired text parsed and the deck was
\* written: the call returned the path
C24_Witness ==
    /\ last_call.op = "generate"
    /\ last_call.outcome = "path"
    /\ last_call.env.parse = "ValueError"
    /\ last_call.env.repaired = "ok"
    /\ last_response = DECK_JSON

\* C25: for a PDF of n_pages >= 1 and any integers start and end, validate_page_range
\* returns (s, None) with 1 <= s <= n_pages, or (s, e) with 1 <= s < e <= n_pages
C25_RangeWithinPages ==
    pc = "range_done" =>
        IF range_result.end_is_none
        THEN 1 <= range_result.start /\ range_result.start <= range_call.n_pages
        ELSE /\ 1 <= range_result.start
             /\ range_result.start < range_result.end
             /\ range_result.end <= range_call.n_pages

(***************************************************************************)
(* The default handler's choice of layout                                  *)
(***************************************************************************)

\* the slide a handler call has added last
LastOf(pres) == pres[Len(pres)]

\* C26: the default handler attempts a decorated layout only when the SlideSpec has the key
\* 'img_keywords' and the first draw is below 1/3; the second draw, when below 0.8, selects
\* the foreground-image layout and otherwise the background-image layout; in every other
\* case the slide is text only; each case adds exactly one slide, and the layout is the same
\* for the same SlideSpec and the same draws, whatever the photo search and download do
C26_DrawsChooseLayout ==
    (pc = "default" /\ ~is_processing_done) =>
        \A d1 \in Draws, d2 \in Draws, search \in {"raises", "no_photo", "photo"}, download \in {"raises", "ok"} :
            LET env == [draw1 |-> d1, draw2 |-> d2, search |-> search, download |-> download]
                o == _handle_default_display(presentation, template, a_slide, env)
                decorated == "img_keywords" \in a_slide.keys /\ 3 * d1 < 1000
                foreground == 10 * d2 < 8000
            IN  /\ Len(o.pres) = Len(presentation) + 1
                /\ SubSeq(o.pres, 1, Len(presentation)) = presentation
                /\ (decorated /\ foreground) =>
                      /\ o = _handle_display_image__in_foreground(presentation, template, a_slide, env)
                      /\ LastOf(o.pres).layout = 8
                /\ (decorated /\ ~foreground) =>
                      /\ o = _handle_display_image__in_background(presentation, template, a_slide, env)
                      /\ LastOf(o.pres).layout = 1
                /\ ~decorated =>
                      /\ o = DefaultTextOnly(presentation, template, a_slide)
                      /\ LastOf(o.pres).layout = 1
                      /\ ~HasPicture(LastOf(o.pres))

\* a default-handler call drew below 1/3 and then 0.8 or more: its slide has the title and
\* content layout and the photo behind the text
C26_Witness ==
    \E n \in 1..Len(calls) :
        /\ calls[n].handler = "default"
        /\ calls[n].outcome = "True"
        /\ calls[n].after = calls[n].before + 1
        /\ "img_keywords" \in SpecOf(calls[n]).keys
        /\ presentation[calls[n].after].layout = 1
        /\ HasPicture(presentation[calls[n].after])

(***************************************************************************)
(* Bullets as paragraphs                                                   *)
(***************************************************************************)

\* C27: add_bulleted_items renders k >= 1 flat bullets as exactly k paragraphs in input
\* order; every paragraph, the first included, has the indent level of its bullet, and its
\* text is the text of the bullet with a leading '>> ' removed
C27_ParagraphPerBullet ==
    (pc = "flat_done" /\ level = 0 /\ flat_list # <<>>) =>
        LET frame == add_bulleted_items(EmptyFrame, flat_list)
        IN  /\ Len(frame) = Len(flat_list)
            /\ \A i \in 1..Len(flat_list) :
                  /\ frame[i].level = flat_list[i][2]
                  /\ RunsText(frame[i].runs) = RemovePrefix(flat_list[i][1], STEP_BY_STEP_PROCESS_MARKER)

(***************************************************************************)
(* The chat history of a SlideDeckAI object                                *)
(***************************************************************************)

\* C28: after any sequence of generate(), revise() and reset() calls, those whose LLM
\* request fails included, the chat history holds at most 16 messages
C28_HistoryAtMost16 == Len(chat_history) <= 16

\* the positions of the AI messages of the chat history
AiPositions == {i \in 1..Len(chat_history) : chat_history[i].role = "ai"}

\* C29: the chat history alternates user, ai, user, ai, ... starting with a user message,
\* and last_response, when it is not None, is the content of the last AI message
C29_HistoryAlternates ==
    /\ \A i \in 1..Len(chat_history) :
          chat_history[i].role = IF i % 2 = 1 THEN "user" ELSE "ai"
    /\ last_response # NoneText =>
          /\ AiPositions # {}
          /\ \E i \in AiPositions :
                /\ \A j \in AiPositions : j <= i
                /\ chat_history[i].content = last_response

(***************************************************************************)
(* Handlers that decline a SlideSpec                                       *)
(***************************************************************************)

\* the handlers whose return value the dispatch loop reads
DecliningHandlers == {"icons", "table", "double_col", "step"}

\* C30: whenever the icon-grid, table, double-column or step-process handler returns False
\* for a SlideSpec, the call has added no slide and has changed nothing else of the
\* presentation
C30_DeclineChangesNothing ==
    /\ [](\A n \in 1..Len(calls) :
             (calls[n].handler \in DecliningHandlers /\ calls[n].outcome = "False")
             => calls[n].after = calls[n].before)
    /\ [][(/\ Len(calls') = Len(calls) + 1
           /\ calls'[Len(calls')].handler \in DecliningHandlers
           /\ calls'[Len(calls')].outcome = "False")
          => presentation' = presentation]_vars

\* all four handlers declined a SlideSpec and the default handler then added its one slide
C30_Witness ==
    \E n \in 1..Len(calls) :
        /\ n + 4 <= Len(calls)
        /\ \A k \in 0..3 :
              /\ calls[n + k].handler = HandlerOrder[k + 1]
              /\ calls[n + k].outcome = "False"
              /\ calls[n + k].slide = calls[n].slide
              /\ calls[n + k].after = calls[n].before
        /\ calls[n + 4].handler = "default"
        /\ calls[n + 4].slide = calls[n].slide
        /\ calls[n + 4].before = calls[n].before
        /\ calls[n + 4].after = calls[n].before + 1
        /\ Len(presentation) >= calls[n + 4].after

====
